---- MODULE Spec2Model ----
(***************************************************************************)
(* The DLP scanner of the LLM security gateway                             *)
(* (src/src/ai_gateway_proxy/dlp_filters.py): pattern registry, category   *)
(* validators, match collector, risk classifier and redactor.              *)
(*                                                                         *)
(* Strings of the program are sequences of code points (<<97, 64>> is      *)
(* "a@"), so that splitting, case folding, digit parsing and splicing are  *)
(* computed character by character as the code computes them.  Offsets     *)
(* are the code's 0-based offsets: the character at offset p of t is       *)
(* t[p + 1].                                                               *)
(***************************************************************************)
EXTENDS Integers, Sequences, FiniteSets, TLC

VARIABLES
  patterns,        \* DLPScanner.patterns: the registry, in insertion order
  redaction_mode,  \* DLPScanner.redaction_mode
  hash_seed,       \* the process's string-hash seed (PYTHONHASHSEED / random)
  op,              \* the method call in progress, "idle" between calls
  pii_type,        \* the pii_type argument of the call (NoType when none)
  text,            \* the string argument of the call
  mode_arg,        \* the mode argument of the call ("" when none)
  matches,         \* the List[PIIMatch] the call works on
  ret,             \* what the call returned or raised
  issued,          \* tokens handed out so far, over all process runs
  frame,           \* the local variables of a call that runs step by step
  metrics,         \* the gateway's SecurityMetrics object (main.py)
  suspended        \* the handlers waiting at an await, each with its local variables

vars ==
  <<patterns, redaction_mode, hash_seed, op, pii_type, text, mode_arg, matches, ret, issued,
    frame, metrics, suspended>>

(***************************************************************************)
(* Characters                                                              *)
(***************************************************************************)
Digit == 48..57                      \* 0-9
UpperCase == 65..90                  \* A-Z
LowerCase == 97..122                 \* a-z
Alpha == UpperCase \cup LowerCase
Word == Alpha \cup Digit \cup {95}   \* \w
WhiteSpace == {9, 10, 11, 12, 13, 28, 29, 30, 31, 32}  \* \s and str.isspace, below 128

\* str.upper() and str.lower() on one character
UpperChar(c) == IF c \in LowerCase THEN c - 32 ELSE c
LowerChar(c) == IF c \in UpperCase THEN c + 32 ELSE c
Upper(s) == [i \in 1..Len(s) |-> UpperChar(s[i])]
Lower(s) == [i \in 1..Len(s) |-> LowerChar(s[i])]

\* s[a:b] for 0 <= a, b (Python slice, clipped to the string)
Slice(s, a, b) ==
  LET hi == IF b > Len(s) THEN Len(s) ELSE b
  IN  IF a >= hi THEN <<>> ELSE SubSeq(s, a + 1, hi)

\* needle in s
Contains(s, needle) ==
  \E p \in 0..(Len(s) - Len(needle)) : Slice(s, p, p + Len(needle)) = needle

\* s.replace(c, '') for a one-character c
RECURSIVE RemoveChar(_, _)
RemoveChar(s, c) ==
  IF s = <<>> THEN <<>>
  ELSE (IF Head(s) = c THEN <<>> ELSE <<Head(s)>>) \o RemoveChar(Tail(s), c)

\* s.split(c): the parts between the occurrences of c, empty parts kept
RECURSIVE Split(_, _)
SplitAt(s, c, i) == <<SubSeq(s, 1, i - 1)>> \o Split(SubSeq(s, i + 1, Len(s)), c)
Split(s, c) ==
  IF \A i \in 1..Len(s) : s[i] # c THEN <<s>>
  ELSE SplitAt(s, c, CHOOSE j \in 1..Len(s) : s[j] = c /\ \A k \in 1..(j - 1) : s[k] # c)

\* str(n) for n >= 0
RECURSIVE Str(_)
Str(n) == IF n < 10 THEN <<48 + n>> ELSE Str(n \div 10) \o <<48 + (n % 10)>>

(***************************************************************************)
(* class PIIType(Enum).  A registry key or a PIIMatch.pii_type is either a *)
(* member of the enum, [kind |-> "enum", s |-> its name], or a plain str,  *)
(* [kind |-> "str", s |-> the string] (add_custom_pattern's fallback).     *)
(***************************************************************************)
\* PIIType.EMAIL = "email"
EMAIL == [kind |-> "enum", s |-> <<69, 77, 65, 73, 76>>]
\* PIIType.PHONE = "phone_number"
PHONE == [kind |-> "enum", s |-> <<80, 72, 79, 78, 69>>]
\* PIIType.SSN = "social_security_number"
SSN == [kind |-> "enum", s |-> <<83, 83, 78>>]
\* PIIType.CREDIT_CARD = "credit_card"
CREDIT_CARD == [kind |-> "enum", s |-> <<67, 82, 69, 68, 73, 84, 95, 67, 65, 82, 68>>]
\* PIIType.IP_ADDRESS = "ip_address"
IP_ADDRESS == [kind |-> "enum", s |-> <<73, 80, 95, 65, 68, 68, 82, 69, 83, 83>>]
\* PIIType.PASSPORT = "passport_number"
PASSPORT == [kind |-> "enum", s |-> <<80, 65, 83, 83, 80, 79, 82, 84>>]
\* PIIType.DRIVER_LICENSE = "driver_license"
DRIVER_LICENSE == [kind |-> "enum", s |-> <<68, 82, 73, 86, 69, 82, 95, 76, 73, 67, 69, 78, 83, 69>>]
\* PIIType.IBAN = "iban"
IBAN == [kind |-> "enum", s |-> <<73, 66, 65, 78>>]
\* PIIType.API_KEY = "api_key"
API_KEY == [kind |-> "enum", s |-> <<65, 80, 73, 95, 75, 69, 89>>]
\* PIIType.AWS_KEY = "aws_access_key"
AWS_KEY == [kind |-> "enum", s |-> <<65, 87, 83, 95, 75, 69, 89>>]
\* PIIType.PRIVATE_KEY = "private_key"
PRIVATE_KEY == [kind |-> "enum", s |-> <<80, 82, 73, 86, 65, 84, 69, 95, 75, 69, 89>>]
\* PIIType.ADDRESS = "physical_address"
ADDRESS == [kind |-> "enum", s |-> <<65, 68, 68, 82, 69, 83, 83>>]
\* PIIType.NAME = "person_name"
NAME == [kind |-> "enum", s |-> <<78, 65, 77, 69>>]
PIIType ==
  << [member |-> EMAIL, value |-> <<101, 109, 97, 105, 108>>],
     [member |-> PHONE, value |-> <<112, 104, 111, 110, 101, 95, 110, 117, 109, 98, 101, 114>>],
     [member |-> SSN, value |-> <<115, 111, 99, 105, 97, 108, 95, 115, 101, 99, 117, 114, 105, 116, 121, 95, 110, 117, 109, 98, 101, 114>>],
     [member |-> CREDIT_CARD, value |-> <<99, 114, 101, 100, 105, 116, 95, 99, 97, 114, 100>>],
     [member |-> IP_ADDRESS, value |-> <<105, 112, 95, 97, 100, 100, 114, 101, 115, 115>>],
     [member |-> PASSPORT, value |-> <<112, 97, 115, 115, 112, 111, 114, 116, 95, 110, 117, 109, 98, 101, 114>>],
     [member |-> DRIVER_LICENSE, value |-> <<100, 114, 105, 118, 101, 114, 95, 108, 105, 99, 101, 110, 115, 101>>],
     [member |-> IBAN, value |-> <<105, 98, 97, 110>>],
     [member |-> API_KEY, value |-> <<97, 112, 105, 95, 107, 101, 121>>],
     [member |-> AWS_KEY, value |-> <<97, 119, 115, 95, 97, 99, 99, 101, 115, 115, 95, 107, 101, 121>>],
     [member |-> PRIVATE_KEY, value |-> <<112, 114, 105, 118, 97, 116, 101, 95, 107, 101, 121>>],
     [member |-> ADDRESS, value |-> <<112, 104, 121, 115, 105, 99, 97, 108, 95, 97, 100, 100, 114, 101, 115, 115>>],
     [member |-> NAME, value |-> <<112, 101, 114, 115, 111, 110, 95, 110, 97, 109, 101>>] >>

PIIMembers == {PIIType[i].member : i \in 1..Len(PIIType)}

\* member.value
MemberValue(m) == PIIType[CHOOSE i \in 1..Len(PIIType) : PIIType[i].member = m].value

\* a key of self.patterns that is a plain str
StrKey(s) == [kind |-> "str", s |-> s]
\* the pii_type of a call that takes none
NoType == [kind |-> "none", s |-> <<>>]

(***************************************************************************)
(* Regular expressions (module re).  A compiled pattern is a sequence of   *)
(* alternatives tried in order at each position; an alternative is a       *)
(* sequence of items; an item is a word boundary \b or a character class   *)
(* with a greedy repetition {min,max} (max = -1: no upper limit).  A       *)
(* counted or optional group is written out: (?:X)?Y is the alternatives   *)
(* XY, Y in that order, which is the order the backtracking matcher tries  *)
(* them in.                                                                *)
(***************************************************************************)
WB == [k |-> "b", cls |-> {}, min |-> 0, max |-> 0]
Rep(cls, lo, hi) == [k |-> "c", cls |-> cls, min |-> lo, max |-> hi]
One(cls) == Rep(cls, 1, 1)
Opt(cls) == Rep(cls, 0, 1)
Lit(s) == [i \in 1..Len(s) |-> One({s[i]})]

IsWordAt(t, p) == p >= 0 /\ p < Len(t) /\ t[p + 1] \in Word
\* \b at offset p: exactly one of the characters before and after is a word character
IsBoundary(t, p) == IsWordAt(t, p - 1) # IsWordAt(t, p)

\* how many characters from offset p on are in cls, counting at most hi (hi = -1: all)
RECURSIVE RunLen(_, _, _, _)
RunLen(t, p, cls, hi) ==
  IF hi = 0 \/ p >= Len(t) THEN 0
  ELSE IF t[p + 1] \notin cls THEN 0
  ELSE 1 + RunLen(t, p + 1, cls, IF hi = -1 THEN -1 ELSE hi - 1)

\* The end offset of the first match, in backtracking order, of items[k..]
\* at offset p, or -1.  A match that ends before minEnd is refused and the
\* matcher backtracks (the scanner's must_advance after an empty match).
RECURSIVE MatchItems(_, _, _, _, _)
RECURSIVE TryCounts(_, _, _, _, _, _)
MatchItems(items, k, t, p, minEnd) ==
  IF k > Len(items) THEN (IF p >= minEnd THEN p ELSE -1)
  ELSE IF items[k].k = "b"
    THEN (IF IsBoundary(t, p) THEN MatchItems(items, k + 1, t, p, minEnd) ELSE -1)
  ELSE TryCounts(items, k, t, p, RunLen(t, p, items[k].cls, items[k].max), minEnd)

\* greedy: the longest repetition first (n characters), then one fewer, ...
Backtrack(items, k, t, p, n, minEnd, r) ==
  IF r # -1 THEN r ELSE TryCounts(items, k, t, p, n - 1, minEnd)

TryCounts(items, k, t, p, n, minEnd) ==
  IF n < items[k].min THEN -1
  ELSE Backtrack(items, k, t, p, n, minEnd, MatchItems(items, k + 1, t, p + n, minEnd))

\* the first alternative, from the a-th on, that matches at offset p
RECURSIVE MatchAlts(_, _, _, _, _)
NextAlt(alts, a, t, p, minEnd, r) ==
  IF r # -1 THEN r ELSE MatchAlts(alts, a + 1, t, p, minEnd)

MatchAlts(alts, a, t, p, minEnd) ==
  IF a > Len(alts) THEN -1
  ELSE NextAlt(alts, a, t, p, minEnd, MatchItems(alts[a], 1, t, p, minEnd))

\* pattern.search from offset p: the leftmost match [start, end), or
\* [start |-> -1].  mustAdvance refuses an empty match at p itself.
MinEndAt(p, q, mustAdvance) == IF mustAdvance /\ q = p THEN p + 1 ELSE q

\* the offsets from p on at which some alternative matches
StartsFrom(alts, t, p, mustAdvance) ==
  {q \in p..Len(t) : MatchAlts(alts, 1, t, q, MinEndAt(p, q, mustAdvance)) # -1}

NextStart(alts, t, p, mustAdvance, q) ==
  [start |-> q, end |-> MatchAlts(alts, 1, t, q, MinEndAt(p, q, mustAdvance))]

Leftmost(alts, t, p, mustAdvance, starts) ==
  IF starts = {} THEN [start |-> -1, end |-> -1]
  ELSE NextStart(alts, t, p, mustAdvance, CHOOSE q \in starts : \A s \in starts : q <= s)

Search(alts, t, p, mustAdvance) ==
  Leftmost(alts, t, p, mustAdvance, StartsFrom(alts, t, p, mustAdvance))

\* re.finditer: the successive non-overlapping matches, left to right; the
\* search resumes at the end of the last match, and after an empty match it
\* must advance.
RECURSIVE FindIterFrom(_, _, _, _)
NextMatch(alts, t, m) ==
  IF m.start = -1 THEN <<>> ELSE <<m>> \o FindIterFrom(alts, t, m.end, m.end = m.start)

FindIterFrom(alts, t, p, mustAdvance) == NextMatch(alts, t, Search(alts, t, p, mustAdvance))

finditer(alts, t) == FindIterFrom(alts, t, 0, FALSE)

(***************************************************************************)
(* _initialize_patterns: the built-in rules.  Each regex is given with its *)
(* source text and its compiled form.                                      *)
(***************************************************************************)
Regex(src, alts) == [src |-> src, compiles |-> TRUE, alts |-> alts]

\* [A-Za-z0-9._%+-]   [A-Za-z0-9.-]   [A-Z|a-z] (the | is a member of the class)
EmailLocalChars == Alpha \cup Digit \cup {46, 95, 37, 43, 45}
EmailDomainChars == Alpha \cup Digit \cup {46, 45}
EmailTldChars == Alpha \cup {124}
\* [-.\s]   [-\s]
PhoneSeparators == {45, 46} \cup WhiteSpace
CardSeparators == {45} \cup WhiteSpace

EmailRe ==
  Regex("\\b[A-Za-z0-9._%+-]+@[A-Za-z0-9.-]+\\.[A-Z|a-z]{2,}\\b",
    << <<WB, Rep(EmailLocalChars, 1, -1), One({64}), Rep(EmailDomainChars, 1, -1),
         One({46}), Rep(EmailTldChars, 2, -1), WB>> >>)

\* [6789]\d{8}\b   and   [-.\s]?\(?\d{3}\)?[-.\s]?\d{3}[-.\s]?\d{4}\b
PhoneEsTail == <<One({54, 55, 56, 57}), Rep(Digit, 8, 8), WB>>
PhoneUsTail ==
  <<Opt(PhoneSeparators), Opt({40}), Rep(Digit, 3, 3), Opt({41}), Opt(PhoneSeparators),
    Rep(Digit, 3, 3), Opt(PhoneSeparators), Rep(Digit, 4, 4), WB>>

PhoneRe ==
  Regex("\\b(?:\\+?34)?[6789]\\d{8}\\b|\\b(?:\\+?1)?[-.\\s]?\\(?\\d{3}\\)?[-.\\s]?\\d{3}[-.\\s]?\\d{4}\\b",
    << <<WB, Opt({43}), One({51}), One({52})>> \o PhoneEsTail,
       <<WB>> \o PhoneEsTail,
       <<WB, Opt({43}), One({49})>> \o PhoneUsTail,
       <<WB>> \o PhoneUsTail >>)

SsnRe ==
  Regex("\\b\\d{3}-\\d{2}-\\d{4}\\b",
    << <<WB, Rep(Digit, 3, 3), One({45}), Rep(Digit, 2, 2), One({45}), Rep(Digit, 4, 4), WB>> >>)

CardGroup == <<Rep(Digit, 4, 4), Opt(CardSeparators)>>
CreditCardRe ==
  Regex("\\b(?:\\d{4}[-\\s]?){3}\\d{4}\\b",
    << <<WB>> \o CardGroup \o CardGroup \o CardGroup \o <<Rep(Digit, 4, 4), WB>> >>)

IpGroup == <<Rep(Digit, 1, 3), One({46})>>
IpAddressRe ==
  Regex("\\b(?:\\d{1,3}\\.){3}\\d{1,3}\\b",
    << <<WB>> \o IpGroup \o IpGroup \o IpGroup \o <<Rep(Digit, 1, 3), WB>> >>)

IbanRe ==
  Regex("\\b[A-Z]{2}\\d{2}[A-Z0-9]{1,30}\\b",
    << <<WB, Rep(UpperCase, 2, 2), Rep(Digit, 2, 2), Rep(UpperCase \cup Digit, 1, 30), WB>> >>)

ApiKeyRe ==
  Regex("\\b[A-Za-z0-9_-]{32,}\\b",
    << <<WB, Rep(Alpha \cup Digit \cup {95, 45}, 32, -1), WB>> >>)

\* "-----BEGIN "
PemBegin == <<45, 45, 45, 45, 45, 66, 69, 71, 73, 78, 32>>
\* "RSA "
PemRsa == <<82, 83, 65, 32>>
\* "EC "
PemEc == <<69, 67, 32>>
\* "PRIVATE KEY-----"
PemPrivateKey == <<80, 82, 73, 86, 65, 84, 69, 32, 75, 69, 89, 45, 45, 45, 45, 45>>
\* "AKIA"
Akia == <<65, 75, 73, 65>>

AwsKeyRe ==
  Regex("\\bAKIA[0-9A-Z]{16}\\b",
    << <<WB>> \o Lit(Akia) \o <<Rep(Digit \cup UpperCase, 16, 16), WB>> >>)

PrivateKeyRe ==
  Regex("-----BEGIN (?:RSA |EC )?PRIVATE KEY-----",
    << Lit(PemBegin) \o Lit(PemRsa) \o Lit(PemPrivateKey),
       Lit(PemBegin) \o Lit(PemEc) \o Lit(PemPrivateKey),
       Lit(PemBegin) \o Lit(PemPrivateKey) >>)

PassportRe ==
  Regex("\\b[A-Z]{1,2}\\d{6,9}\\b",
    << <<WB, Rep(UpperCase, 1, 2), Rep(Digit, 6, 9), WB>> >>)

\* a description: its text, followed by the string in suffix
Description(txt, suffix) == [text |-> txt, suffix |-> suffix]

\* one item of the dict self.patterns: "pattern" is the regex source text,
\* confidence is in hundredths (0.95 is 95)
Rule(key, pattern, confidence, description) ==
  [key |-> key, pattern |-> pattern, confidence |-> confidence, description |-> description]

_initialize_patterns ==
  << Rule(EMAIL, EmailRe.src, 95, Description("Direccion de correo electronico", <<>>)),
     Rule(PHONE, PhoneRe.src, 85, Description("Numero de telefono (ES/US)", <<>>)),
     Rule(SSN, SsnRe.src, 90, Description("Social Security Number (US)", <<>>)),
     Rule(CREDIT_CARD, CreditCardRe.src, 80, Description("Numero de tarjeta de credito", <<>>)),
     Rule(IP_ADDRESS, IpAddressRe.src, 70, Description("Direccion IP", <<>>)),
     Rule(IBAN, IbanRe.src, 75, Description("IBAN (cuenta bancaria internacional)", <<>>)),
     Rule(API_KEY, ApiKeyRe.src, 60, Description("API Key generica", <<>>)),
     Rule(AWS_KEY, AwsKeyRe.src, 95, Description("AWS Access Key", <<>>)),
     Rule(PRIVATE_KEY, PrivateKeyRe.src, 99, Description("Clave privada criptografica", <<>>)),
     Rule(PASSPORT, PassportRe.src, 65, Description("Numero de pasaporte", <<>>)) >>

\* patterns an operator registers with add_custom_pattern; "(" does not compile
DigitsRe == Regex("\\d+", << <<Rep(Digit, 1, -1)>> >>)
AStarRe == Regex("a*", << <<Rep({97}, 0, -1)>> >>)
UnclosedRe == [src |-> "(", compiles |-> FALSE, alts |-> <<>>]

\* re.compile, on the regex sources the model uses
KnownRegexes ==
  {EmailRe, PhoneRe, SsnRe, CreditCardRe, IpAddressRe, IbanRe, ApiKeyRe, AwsKeyRe,
   PrivateKeyRe, PassportRe, DigitsRe, AStarRe, UnclosedRe}
re_compile(src) == CHOOSE r \in KnownRegexes : r.src = src

(***************************************************************************)
(* int(s): optional surrounding white space, an optional sign, decimal     *)
(* digits with single underscores allowed between digits.  ok = FALSE is   *)
(* ValueError.                                                             *)
(***************************************************************************)
IntStripChars == {9, 10, 11, 12, 13, 32}

RECURSIVE LStrip(_)
LStrip(s) == IF s # <<>> /\ Head(s) \in IntStripChars THEN LStrip(Tail(s)) ELSE s
RECURSIVE RStrip(_)
RStrip(s) ==
  IF s # <<>> /\ s[Len(s)] \in IntStripChars THEN RStrip(SubSeq(s, 1, Len(s) - 1)) ELSE s

\* Python's int has no upper limit and TLC's integers have 32 bits: a value
\* of IntCap or more is kept as IntCap, "a number at least this large"
IntCap == 1000000

Capped(n) == IF n >= IntCap THEN IntCap ELSE n

RECURSIVE DigitsValue(_, _)
DigitsValue(s, acc) ==
  IF s = <<>> THEN acc ELSE DigitsValue(Tail(s), Capped(10 * acc + (Head(s) - 48)))

\* digits, with single underscores between digits only
WellFormedNumber(num) ==
  /\ num # <<>>
  /\ \A i \in 1..Len(num) : num[i] \in Digit \cup {95}
  /\ num[1] # 95 /\ num[Len(num)] # 95
  /\ \A i \in 1..(Len(num) - 1) : ~(num[i] = 95 /\ num[i + 1] = 95)

IntUnsigned(num, negative) ==
  IF ~WellFormedNumber(num) THEN [ok |-> FALSE, val |-> 0]
  ELSE [ok |-> TRUE,
        val |-> IF negative THEN 0 - DigitsValue(RemoveChar(num, 95), 0)
                ELSE DigitsValue(RemoveChar(num, 95), 0)]

IntStripped(body) ==
  IF body # <<>> /\ body[1] \in {43, 45}
    THEN IntUnsigned(Tail(body), body[1] = 45)
    ELSE IntUnsigned(body, FALSE)

int(s) == IntStripped(RStrip(LStrip(s)))

(***************************************************************************)
(* _luhn_check                                                             *)
(***************************************************************************)
\* for i, digit in enumerate(reversed(digits)): the loop from index i on,
\* rdigits being reversed(digits)
RECURSIVE LuhnLoop(_, _, _)
\* a variant of the doubling step that keeps a two-digit result as it is
DoubledPlain(digit) == digit * 2

\* digit *= 2; if digit > 9: digit -= 9
Doubled(digit) == IF digit * 2 > 9 THEN digit * 2 - 9 ELSE digit * 2

LuhnLoop(rdigits, i, checksum) ==
  IF i >= Len(rdigits) THEN checksum
  ELSE LuhnLoop(rdigits, i + 1,
                checksum + (IF i % 2 = 1 THEN Doubled(rdigits[i + 1]) ELSE rdigits[i + 1]))

Reversed(s) == [i \in 1..Len(s) |-> s[Len(s) + 1 - i]]

\* [int(d) for d in card_number], each with its ok flag
IntEach(card_number) == [i \in 1..Len(card_number) |-> int(<<card_number[i]>>)]

LuhnOf(ints) ==
  IF \E i \in 1..Len(ints) : ~ints[i].ok
    THEN FALSE    \* int(d) raised ValueError, caught
  ELSE LuhnLoop(Reversed([i \in 1..Len(ints) |-> ints[i].val]), 0, 0) % 10 = 0

_luhn_check(card_number) == LuhnOf(IntEach(card_number))

(***************************************************************************)
(* _validate_match: [raised |-> "", value |-> the bool returned], or       *)
(* [raised |-> "ValueError"] when int(part) raises                         *)
(***************************************************************************)
Returned(v) == [raised |-> "", value |-> v]
Raised(e) == [raised |-> e, value |-> FALSE]

\* all(0 <= int(part) <= 255 for part in parts): stops at the first part
\* that is out of range, raises at the first part int() rejects
RECURSIVE AllInRange(_)
InRange(parts, n) ==
  IF ~n.ok THEN Raised("ValueError")
  ELSE IF ~(0 <= n.val /\ n.val <= 255) THEN Returned(FALSE)
  ELSE AllInRange(Tail(parts))

AllInRange(parts) ==
  IF parts = <<>> THEN Returned(TRUE) ELSE InRange(parts, int(Head(parts)))

\* example_domains = ["example.com", "test.com", "domain.com"]
example_domains ==
  << <<101, 120, 97, 109, 112, 108, 101, 46, 99, 111, 109>>,
     <<116, 101, 115, 116, 46, 99, 111, 109>>,
     <<100, 111, 109, 97, 105, 110, 46, 99, 111, 109>> >>

MinApiKeyLen == 32

\* any(c.isalpha() for c in value), any(c.isdigit() for c in value)
has_letter(value) == \E i \in 1..Len(value) : value[i] \in Alpha
has_digit(value) == \E i \in 1..Len(value) : value[i] \in Digit

\* a variant of the length test that asks for more than MinApiKeyLen characters
LongerThanMin(value) == Len(value) > MinApiKeyLen

\* len(value) >= 32
LongEnough(value) == Len(value) >= MinApiKeyLen

_validate_match(t, value) ==
  IF t = CREDIT_CARD THEN Returned(_luhn_check(RemoveChar(RemoveChar(value, 45), 32)))
  ELSE IF t = IP_ADDRESS THEN AllInRange(Split(value, 46))
  ELSE IF t = EMAIL THEN
    Returned(~\E i \in 1..Len(example_domains) : Contains(Lower(value), example_domains[i]))
  ELSE IF t = API_KEY THEN
    Returned(has_letter(value) /\ has_digit(value) /\ LongEnough(value))
  ELSE Returned(TRUE)

(***************************************************************************)
(* _find_all_pii                                                           *)
(***************************************************************************)
PIIMatch(t, value, start_pos, end_pos, confidence) ==
  [pii_type |-> t, value |-> value, start_pos |-> start_pos, end_pos |-> end_pos,
   confidence |-> confidence]

Found(ms) == [raised |-> "", matches |-> ms]
FindRaised(e) == [raised |-> e, matches |-> <<>>]

\* the inner loop over re.finditer(pattern, text): each match with its text
\* and the validator's answer for it
Candidate(rule, found_i, value) ==
  [match |-> PIIMatch(rule.key, value, found_i.start, found_i.end, rule.confidence),
   valid |-> _validate_match(rule.key, value)]

Candidates(rule, t, found) ==
  [i \in 1..Len(found) |-> Candidate(rule, found[i], Slice(t, found[i].start, found[i].end))]

\* a variant of the test of the validator's answer that keeps every match
KeepsAll(c) == TRUE

IsKept(c) == c.valid.value
MatchesOf(cs) == [i \in 1..Len(cs) |-> cs[i].match]

\* the first validator call that raises ends the scan; otherwise the
\* matches the validator accepted are appended in match order
FirstRaised(cs) ==
  cs[CHOOSE i \in 1..Len(cs) :
       cs[i].valid.raised # "" /\ \A k \in 1..(i - 1) : cs[k].valid.raised = ""].valid.raised

KeepValid(cs, acc) ==
  IF \E i \in 1..Len(cs) : cs[i].valid.raised # "" THEN FindRaised(FirstRaised(cs))
  ELSE Found(acc \o MatchesOf(SelectSeq(cs, IsKept)))

ValidateMatches(rule, t, found, acc) == KeepValid(Candidates(rule, t, found), acc)

\* the outer loop, from the r-th item of self.patterns on; a pattern that
\* does not compile makes re.finditer raise re.error
RECURSIVE ScanRules(_, _, _, _)
ScanNext(pats, r, t, got) ==
  IF got.raised # "" THEN got ELSE ScanRules(pats, r + 1, t, got.matches)

ScanRule(pats, r, t, acc, compiled) ==
  IF ~compiled.compiles THEN FindRaised("re.error")
  ELSE ScanNext(pats, r, t, ValidateMatches(pats[r], t, finditer(compiled.alts, t), acc))

ScanRules(pats, r, t, acc) ==
  IF r > Len(pats) THEN Found(acc)
  ELSE ScanRule(pats, r, t, acc, re_compile(pats[r].pattern))

\* a variant of the rank that puts a match before the earlier matches with
\* the same start_pos
SortRankTiesReversed(ms, i) ==
  Cardinality({j \in 1..Len(ms) :
                 \/ ms[j].start_pos < ms[i].start_pos
                 \/ ms[j].start_pos = ms[i].start_pos /\ j > i}) + 1

\* list.sort(key=lambda x: x.start_pos): stable and ascending, so a match
\* goes after every match with a smaller start_pos and after every earlier
\* match with the same start_pos
SortRank(ms, i) ==
  Cardinality({j \in 1..Len(ms) :
                 \/ ms[j].start_pos < ms[i].start_pos
                 \/ ms[j].start_pos = ms[i].start_pos /\ j < i}) + 1

Ranked(ms, ranks) == [k \in 1..Len(ms) |-> ms[CHOOSE i \in 1..Len(ms) : ranks[i] = k]]

SortByStart(ms) == Ranked(ms, [i \in 1..Len(ms) |-> SortRank(ms, i)])

SortFound(got) ==
  IF got.raised # "" THEN got ELSE Found(SortByStart(got.matches))

_find_all_pii(pats, t) == SortFound(ScanRules(pats, 1, t, <<>>))

(***************************************************************************)
(* hash(str): the runtime's keyed string hash.  The key is drawn once per  *)
(* process (hash_seed) and the result depends on the key and on every      *)
(* character.  The runtime's 64-bit mixing function is out of the reach of *)
(* TLC's 32-bit integers; a multiplicative hash of HashModulus values      *)
(* stands for it: start from the key, multiply by HashMultiplier and add   *)
(* the next character.                                                     *)
(***************************************************************************)
HashMultiplier == 31
HashModulus == 65536

RECURSIVE HashLoop(_, _)
HashLoop(s, x) ==
  IF s = <<>> THEN x ELSE HashLoop(Tail(s), (HashMultiplier * x + Head(s)) % HashModulus)

\* the hash of the empty string is 0 under every key
hash(seed, s) == IF s = <<>> THEN 0 ELSE HashLoop(s, seed)

(***************************************************************************)
(* _sanitize_text                                                          *)
(***************************************************************************)
\* "[REDACTED_"
RedactedPrefix == <<91, 82, 69, 68, 65, 67, 84, 69, 68, 95>>
\* "[TOKEN_"
TokenPrefix == <<91, 84, 79, 75, 69, 78, 95>>

TokenModulus == 10000

\* the replacement of one match under a mode; match.pii_type.value raises
\* AttributeError when pii_type is a plain str
Replacement(m, mode, seed) ==
  IF mode = "mask" THEN
    IF m.pii_type.kind # "enum" THEN Raised("AttributeError")
    ELSE Returned(RedactedPrefix \o Upper(MemberValue(m.pii_type)) \o <<93>>)
  ELSE IF mode = "remove" THEN Returned(<<>>)
  ELSE
    IF m.pii_type.kind # "enum" THEN Raised("AttributeError")
    ELSE Returned(TokenPrefix \o Upper(MemberValue(m.pii_type)) \o <<95>>
                  \o Str(hash(seed, m.value) % TokenModulus) \o <<93>>)

\* a variant of the splice that resumes at start_pos, keeping the raw value
SpliceFromStart(sanitized, m, replacement) ==
  Slice(sanitized, 0, m.start_pos) \o replacement \o Slice(sanitized, m.start_pos, Len(sanitized))

\* sanitized[:start_pos] + replacement + sanitized[end_pos:]
Splice(sanitized, m, replacement) ==
  Slice(sanitized, 0, m.start_pos) \o replacement \o Slice(sanitized, m.end_pos, Len(sanitized))

\* one iteration of the loop: the text so far (or the exception an earlier
\* iteration raised) with match m replaced
SanitizeStep(sanitized, m, r) ==
  IF sanitized.raised # "" THEN sanitized
  ELSE IF r.raised # "" THEN r
  ELSE Returned(Splice(sanitized.value, m, r.value))

\* for match in reversed(matches): the text after the iterations for the
\* last match down to the i-th
RECURSIVE SanitizeLoop(_, _, _, _, _)
SanitizeLoop(t, ms, i, mode, seed) ==
  IF i > Len(ms) THEN Returned(t)
  ELSE SanitizeStep(SanitizeLoop(t, ms, i + 1, mode, seed), ms[i], Replacement(ms[i], mode, seed))

_sanitize_text(t, ms, mode, seed) ==
  IF ms = <<>> THEN Returned(t) ELSE SanitizeLoop(t, ms, 1, mode, seed)

(***************************************************************************)
(* _calculate_risk_level                                                   *)
(***************************************************************************)
high_risk_types == {SSN, CREDIT_CARD, PASSPORT, AWS_KEY, PRIVATE_KEY}
medium_risk_types == {EMAIL, PHONE, IBAN, DRIVER_LICENSE, API_KEY}

\* sum(1 for m in matches if m.pii_type in types)
RECURSIVE CountIn(_, _)
CountIn(ms, types) ==
  IF ms = <<>> THEN 0
  ELSE (IF Head(ms).pii_type \in types THEN 1 ELSE 0) + CountIn(Tail(ms), types)

CriticalHighCount == 2
HighMediumCount == 3

\* variants of the threshold cascade, used to test the properties below:
\* the medium threshold taken as "more than", and the critical threshold
\* taken as "exactly"
RiskOfCountsStrict(high_risk_count, medium_risk_count) ==
  IF high_risk_count >= CriticalHighCount THEN "critical"
  ELSE IF high_risk_count >= 1 THEN "high"
  ELSE IF medium_risk_count > HighMediumCount THEN "high"
  ELSE IF medium_risk_count >= 1 THEN "medium"
  ELSE "low"

RiskOfCountsExact(high_risk_count, medium_risk_count) ==
  IF high_risk_count = CriticalHighCount THEN "critical"
  ELSE IF high_risk_count >= 1 THEN "high"
  ELSE IF medium_risk_count >= HighMediumCount THEN "high"
  ELSE IF medium_risk_count >= 1 THEN "medium"
  ELSE "low"

\* a variant that looks at the first match only
RiskOfFirst(ms) ==
  IF ms = <<>> THEN "none"
  ELSE IF Head(ms).pii_type \in high_risk_types THEN "high"
  ELSE IF Head(ms).pii_type \in medium_risk_types THEN "medium"
  ELSE "low"

RiskOfCounts(high_risk_count, medium_risk_count) ==
  IF high_risk_count >= CriticalHighCount THEN "critical"
  ELSE IF high_risk_count >= 1 THEN "high"
  ELSE IF medium_risk_count >= HighMediumCount THEN "high"
  ELSE IF medium_risk_count >= 1 THEN "medium"
  ELSE "low"

\* a variant of the classifier without the guard for the empty list
RiskWithoutNone(ms) ==
  RiskOfCounts(CountIn(ms, high_risk_types), CountIn(ms, medium_risk_types))

_calculate_risk_level(ms) ==
  IF ms = <<>> THEN "none"
  ELSE RiskOfCounts(CountIn(ms, high_risk_types), CountIn(ms, medium_risk_types))

(***************************************************************************)
(* scan_input, scan_output: the value returned, or the exception raised    *)
(***************************************************************************)
\* list(set([m.pii_type.value for m in matches])), as a set
PiiTypeValues(ms) == {MemberValue(ms[i].pii_type) : i \in 1..Len(ms)}
AllEnum(ms) == \A i \in 1..Len(ms) : ms[i].pii_type.kind = "enum"

InputResult(found, ms) ==
      IF found.raised # "" THEN [raised |-> found.raised]
      ELSE IF ~AllEnum(ms) THEN [raised |-> "AttributeError"]
      ELSE [raised |-> "",
            contains_pii |-> Len(ms) > 0,
            pii_count |-> Len(ms),
            pii_types |-> PiiTypeValues(ms),
            matches |-> [i \in 1..Len(ms) |->
                           [type |-> MemberValue(ms[i].pii_type),
                            position |-> <<ms[i].start_pos, ms[i].end_pos>>,
                            confidence |-> ms[i].confidence]],
            risk_level |-> _calculate_risk_level(ms)]

scan_input(found) == InputResult(found, found.matches)

OutputResult(found, ms, sanitized) ==
      IF found.raised # "" THEN [raised |-> found.raised]
      ELSE IF sanitized.raised # "" THEN [raised |-> sanitized.raised]
      ELSE IF ~AllEnum(ms) THEN [raised |-> "AttributeError"]
      ELSE [raised |-> "",
            contains_pii |-> Len(ms) > 0,
            pii_count |-> Len(ms),
            pii_types |-> PiiTypeValues(ms),
            sanitized_text |-> sanitized.value,
            redaction_count |-> Len(ms),
            risk_level |-> _calculate_risk_level(ms)]

scan_output(found, t, mode, seed) ==
  OutputResult(found, found.matches,
               IF found.raised # "" THEN Raised(found.raised)
               ELSE _sanitize_text(t, found.matches, mode, seed))

(***************************************************************************)
(* Inputs                                                                  *)
(***************************************************************************)
\* "4532015112830366"
Card366 == <<52, 53, 51, 50, 48, 49, 53, 49, 49, 50, 56, 51, 48, 51, 54, 54>>
\* "4532015112830367"
Card367 == <<52, 53, 51, 50, 48, 49, 53, 49, 49, 50, 56, 51, 48, 51, 54, 55>>
\* "4532-0151-1283-0366"
CardDashed == <<52, 53, 51, 50, 45, 48, 49, 53, 49, 45, 49, 50, 56, 51, 45, 48, 51, 54, 54>>
\* "192.168.1.1"
Ip192 == <<49, 57, 50, 46, 49, 54, 56, 46, 49, 46, 49>>
\* "999.1.1.1"
Ip999 == <<57, 57, 57, 46, 49, 46, 49, 46, 49>>
\* "contact me at a@example.com"
ContactExample == <<99, 111, 110, 116, 97, 99, 116, 32, 109, 101, 32, 97, 116, 32, 97, 64, 101, 120, 97, 109, 112, 108, 101, 46, 99, 111, 109>>
\* "test.com@corp.org"
LocalPartTestCom == <<116, 101, 115, 116, 46, 99, 111, 109, 64, 99, 111, 114, 112, 46, 111, 114, 103>>
\* "1.1.1.1 a@b.co       a@b.cotest.com"
EchoedEmail == <<49, 46, 49, 46, 49, 46, 49, 32, 97, 64, 98, 46, 99, 111, 32, 32, 32, 32, 32, 32, 32, 97, 64, 98, 46, 99, 111, 116, 101, 115, 116, 46, 99, 111, 109>>
\* "AB123456"
IbanPassport == <<65, 66, 49, 50, 51, 52, 53, 54>>
\* "123-45-6789 078-05-1120"
TwoSsn == <<49, 50, 51, 45, 52, 53, 45, 54, 55, 56, 57, 32, 48, 55, 56, 45, 48, 53, 45, 49, 49, 50, 48>>
\* "email"
NameOfEmail == <<101, 109, 97, 105, 108>>
\* "name"
NameOfName == <<110, 97, 109, 101>>
\* "employee_id"
NameOfEmployeeId == <<101, 109, 112, 108, 111, 121, 101, 101, 95, 105, 100>>

MaxTextLen == 1
MaxSeed == 1

\* the strings over a, 1 and the space, up to MaxTextLen characters
SmallAlphabet == {97, 49, 32}
SmallTexts == UNION {[1..n -> SmallAlphabet] : n \in 0..MaxTextLen}

\* texts handed to scan_input and scan_output
ScanTexts == SmallTexts \cup {EchoedEmail, IbanPassport, TwoSsn, Ip192}

\* hash seeds a process can start with (0: PYTHONHASHSEED=0)
Seeds == 0..MaxSeed

\* arguments of set_redaction_mode
ModeInputs == {"mask", "remove", "tokenize", "encrypt"}

\* arguments of add_custom_pattern: pii_type, pattern, confidence
TypeNameInputs == {NameOfEmail, NameOfName, NameOfEmployeeId}
PatternInputs == {DigitsRe.src, AStarRe.src, UnclosedRe.src}
DefaultConfidence == 80
ConfidenceInputs == {DefaultConfidence}

(***************************************************************************)
(* The scanner object: construction and method calls.  A call is one step  *)
(* from the idle state; Return ends it.                                    *)
(***************************************************************************)
NoReturn == [raised |-> ""]
NoFrame == [call |-> ""]

\* SecurityMetrics.__init__ (main.py)
SecurityMetrics ==
  [total_requests |-> 0, blocked_requests |-> 0, injection_attempts |-> 0, dlp_violations |-> 0]

Idle ==
  /\ op = "idle"
  /\ pii_type = NoType
  /\ text = <<>>
  /\ mode_arg = ""
  /\ matches = <<>>
  /\ ret = NoReturn

\* DLPScanner.__init__, in a process with some hash seed
Init ==
  /\ patterns = _initialize_patterns
  /\ redaction_mode = "mask"
  /\ hash_seed \in Seeds
  /\ issued = {}
  /\ frame = NoFrame
  /\ metrics = SecurityMetrics
  /\ suspended = <<>>
  /\ Idle

Return ==
  /\ op # "idle"
  /\ op' = "idle"
  /\ pii_type' = NoType
  /\ text' = <<>>
  /\ mode_arg' = ""
  /\ matches' = <<>>
  /\ ret' = NoReturn
  /\ frame' = NoFrame
  /\ UNCHANGED <<patterns, redaction_mode, hash_seed, issued, metrics, suspended>>

ScanInputReturns(found) ==
  /\ matches' = found.matches
  /\ ret' = scan_input(found)

ScanInput(t) ==
  /\ op = "idle"
  /\ ScanInputReturns(_find_all_pii(patterns, t))
  /\ op' = "scan_input"
  /\ text' = t
  /\ UNCHANGED <<patterns, redaction_mode, hash_seed, pii_type, mode_arg, issued, frame, metrics, suspended>>

ScanOutputReturns(found, t) ==
  /\ matches' = found.matches
  /\ ret' = scan_output(found, t, redaction_mode, hash_seed)

ScanOutput(t) ==
  /\ op = "idle"
  /\ ScanOutputReturns(_find_all_pii(patterns, t), t)
  /\ op' = "scan_output"
  /\ text' = t
  /\ UNCHANGED <<patterns, redaction_mode, hash_seed, pii_type, mode_arg, frame, metrics, suspended>>

\* a variant of set_redaction_mode that stores whatever it is given
set_any_mode(m) ==
  /\ op = "idle"
  /\ redaction_mode' = m
  /\ ret' = NoReturn
  /\ op' = "set_redaction_mode"
  /\ mode_arg' = m
  /\ UNCHANGED <<patterns, hash_seed, pii_type, text, matches, issued, frame, metrics, suspended>>

set_redaction_mode(m) ==
  /\ op = "idle"
  /\ IF m \in {"mask", "remove", "tokenize"}
       THEN redaction_mode' = m /\ ret' = NoReturn
       ELSE redaction_mode' = redaction_mode /\ ret' = [raised |-> "ValueError"]
  /\ op' = "set_redaction_mode"
  /\ mode_arg' = m
  /\ UNCHANGED <<patterns, hash_seed, pii_type, text, matches, issued, frame, metrics, suspended>>

\* PIIType[pii_type.upper()] if hasattr(PIIType, pii_type.upper()) else None,
\* then custom_type or pii_type
CustomKey(name) ==
  IF [kind |-> "enum", s |-> Upper(name)] \in PIIMembers
    THEN [kind |-> "enum", s |-> Upper(name)]
    ELSE StrKey(name)

\* a variant of the item assignment that always adds an item
DictAppend(d, rule) == Append(d, rule)

\* self.patterns[key] = value: an existing key keeps its place, a new key
\* goes last
DictSet(d, rule) ==
  IF \E i \in 1..Len(d) : d[i].key = rule.key
    THEN [i \in 1..Len(d) |-> IF d[i].key = rule.key THEN rule ELSE d[i]]
    ELSE Append(d, rule)

add_custom_pattern(name, pattern, confidence) ==
  /\ op = "idle"
  /\ patterns' = DictSet(patterns,
       Rule(CustomKey(name), pattern, confidence,
            Description("Patron personalizado: ", name)))
  /\ op' = "add_custom_pattern"
  /\ pii_type' = CustomKey(name)
  /\ text' = name
  /\ ret' = NoReturn
  /\ frame' = [call |-> "add_custom_pattern", pattern |-> pattern, confidence |-> confidence]
  /\ UNCHANGED <<redaction_mode, hash_seed, mode_arg, matches, issued, metrics, suspended>>

ScanInputCall == \E t \in ScanTexts : ScanInput(t)
ScanOutputCall == \E t \in ScanTexts : ScanOutput(t) /\ UNCHANGED issued
SetRedactionModeCall == \E m \in ModeInputs : set_redaction_mode(m)
AddCustomPatternCall ==
  \E name \in TypeNameInputs, pattern \in PatternInputs, confidence \in ConfidenceInputs :
    add_custom_pattern(name, pattern, confidence)

Next ==
  \/ ScanInputCall
  \/ ScanOutputCall
  \/ SetRedactionModeCall
  \/ AddCustomPatternCall
  \/ Return

Spec == Init /\ [][Next]_vars

(***************************************************************************)
(* The validators on their own: _validate_match is called on candidates    *)
(* drawn from bounded sets, and scan_input on the texts of the gates, with *)
(* the built-in registry and after ip_address is registered again.         *)
(***************************************************************************)
MaxCardLen == 3
MaxParts == 5
MaxPad == 2

\* "ip_address"
NameOfIpAddress == <<105, 112, 95, 97, 100, 100, 114, 101, 115, 115>>
\* "1.2.3"
ThreeParts == <<49, 46, 50, 46, 51>>

\* card candidates: the strings over 0, 5, 9, '-', ' ' and a, up to
\* MaxCardLen characters, and three full card numbers
CardAlphabet == {48, 53, 57, 45, 32, 97}
CardCandidates ==
  UNION {[1..n -> CardAlphabet] : n \in 0..MaxCardLen} \cup {Card366, Card367, CardDashed}

\* address candidates: 1 to MaxParts parts, each 1, 255, 256 or a, with a
\* '.' between parts
RECURSIVE Join(_, _)
Join(parts, c) ==
  IF Len(parts) = 1 THEN parts[1] ELSE parts[1] \o <<c>> \o Join(Tail(parts), c)

PartInputs == {<<49>>, <<50, 53, 53>>, <<50, 53, 54>>, <<97>>}
IpCandidates == {Join(parts, 46) : parts \in UNION {[1..n -> PartInputs] : n \in 1..MaxParts}}

\* email candidates: a local part, '@' and a domain
LocalInputs == {<<97>>, <<116, 101, 115, 116, 46, 99, 111, 109>>, <<65, 46, 66>>}
DomainInputs ==
  { <<98, 46, 99, 111>>,                                              \* b.co
    <<99, 111, 114, 112, 46, 111, 114, 103>>,                         \* corp.org
    <<101, 120, 97, 109, 112, 108, 101, 46, 99, 111, 109>>,           \* example.com
    <<69, 88, 65, 77, 80, 76, 69, 46, 67, 79, 77>>,                   \* EXAMPLE.COM
    <<109, 46, 116, 101, 115, 116, 46, 99, 111, 109, 46, 109, 120>>,  \* m.test.com.mx
    <<100, 111, 109, 97, 105, 110, 46, 99, 111, 109>>,                \* domain.com
    <<116, 101, 115, 116, 46, 99, 111>> }                             \* test.co
EmailCandidates == {l \o <<64>> \o d : l \in LocalInputs, d \in DomainInputs}

\* token candidates: a run of a, a run of 1 and up to MaxPad underscores
RunLengths == {0, 1, 16, 31, 32}
Run(c, n) == [i \in 1..n |-> c]
ApiKeyCandidates ==
  {Run(97, i) \o Run(49, j) \o Run(95, k) : i \in RunLengths, j \in RunLengths, k \in 0..MaxPad}

\* the candidates _validate_match is called on, per type; SSN stands for
\* the types without a validator
ValidatedTypes == {CREDIT_CARD, IP_ADDRESS, EMAIL, API_KEY, SSN}
CandidatesOf(t) ==
  IF t = CREDIT_CARD THEN CardCandidates
  ELSE IF t = IP_ADDRESS THEN IpCandidates
  ELSE IF t = EMAIL THEN EmailCandidates
  ELSE IF t = API_KEY THEN ApiKeyCandidates
  ELSE {TwoSsn}

\* the texts of the gates
GateTexts == {Card366, Card367, CardDashed, Ip192, Ip999, ContactExample, LocalPartTestCom, ThreeParts}

ValidateMatch(t, value) ==
  /\ op = "idle"
  /\ op' = "_validate_match"
  /\ pii_type' = t
  /\ text' = value
  /\ ret' = _validate_match(t, value)
  /\ UNCHANGED <<patterns, redaction_mode, hash_seed, mode_arg, matches, issued, frame, metrics, suspended>>

ValidateMatchCall == \E t \in ValidatedTypes : \E value \in CandidatesOf(t) : ValidateMatch(t, value)
GateScanCall == \E t \in GateTexts : ScanInput(t)
RegisterIpAddressCall ==
  \E pattern \in PatternInputs : add_custom_pattern(NameOfIpAddress, pattern, DefaultConfidence)

NextBuiltin ==
  \/ ValidateMatchCall
  \/ GateScanCall
  \/ RegisterIpAddressCall
  \/ Return

SpecBuiltin == Init /\ [][NextBuiltin]_vars

\* the list holds a match of the category
HasFinding(ms, c) == \E i \in 1..Len(ms) : ms[i].pii_type = c

IsNotSeparator(c) == c \notin {45, 32}
WithoutSeparators(v) == SelectSeq(v, IsNotSeparator)

\* the Luhn sum of a string of digits, taken from the right two digits at a
\* time: the rightmost counts as it is, the one before it doubled, with 9
\* subtracted from a doubled value above 9
DoubleDigit(d) == IF 2 * d > 9 THEN 2 * d - 9 ELSE 2 * d
RECURSIVE LuhnSum(_)
LuhnSum(ds) ==
  IF ds = <<>> THEN 0
  ELSE IF Len(ds) = 1 THEN ds[1] - 48
  ELSE LuhnSum(SubSeq(ds, 1, Len(ds) - 2))
         + (ds[Len(ds)] - 48) + DoubleDigit(ds[Len(ds) - 1] - 48)

LuhnAccepts(v) ==
  /\ \A i \in 1..Len(WithoutSeparators(v)) : WithoutSeparators(v)[i] \in Digit
  /\ LuhnSum(WithoutSeparators(v)) % 10 = 0

\* C5: the card validator accepts a candidate iff, with '-' and ' ' removed,
\* it holds digits only and its Luhn sum is 0 modulo 10; a scan of
\* 4532015112830366 reports a credit-card match and a scan of
\* 4532015112830367 reports none.
C5_Luhn ==
  /\ (op = "_validate_match" /\ pii_type = CREDIT_CARD) => ret = Returned(LuhnAccepts(text))
  /\ (op = "scan_input" /\ patterns = _initialize_patterns /\ text = Card366)
       => HasFinding(matches, CREDIT_CARD)
  /\ (op = "scan_input" /\ patterns = _initialize_patterns /\ text = Card367)
       => ~HasFinding(matches, CREDIT_CARD)

\* the validator has accepted 4532-0151-1283-0366, separators and all
C5_Witness ==
  /\ op = "_validate_match"
  /\ pii_type = CREDIT_CARD
  /\ text = CardDashed
  /\ ret = Returned(TRUE)

\* the part parses as an integer between 0 and 255
ParsesInRange(part) == int(part).ok /\ 0 <= int(part).val /\ int(part).val <= 255

IpAccepts(v) ==
  /\ Len(Split(v, 46)) = 4
  /\ \A i \in 1..Len(Split(v, 46)) : ParsesInRange(Split(v, 46)[i])

\* C6: the address validator accepts a candidate iff splitting it on '.'
\* gives exactly 4 parts, each an integer in 0..255, and returns false for
\* every other candidate; so a scan never fails with ValueError and every
\* ip_address match it reports has that shape.
C6_IpRange ==
  /\ (op = "_validate_match" /\ pii_type = IP_ADDRESS) => ret = Returned(IpAccepts(text))
  /\ op = "scan_input" =>
       /\ ret.raised # "ValueError"
       /\ \A i \in 1..Len(matches) :
            matches[i].pii_type = IP_ADDRESS => IpAccepts(matches[i].value)

\* the part of an address after its '@'
DomainPortion(v) == Split(v, 64)[2]

Denylist ==
  { <<101, 120, 97, 109, 112, 108, 101, 46, 99, 111, 109>>,
    <<116, 101, 115, 116, 46, 99, 111, 109>>,
    <<100, 111, 109, 97, 105, 110, 46, 99, 111, 109>> }

DomainDenylisted(v) == \E d \in Denylist : Contains(Lower(DomainPortion(v)), d)

\* C7: the email validator rejects exactly the candidates whose domain
\* portion holds, case-insensitively, example.com, test.com or domain.com;
\* a scan of "contact me at a@example.com" reports no match.
C7_EmailDenylist ==
  /\ (op = "_validate_match" /\ pii_type = EMAIL) => ret = Returned(~DomainDenylisted(text))
  /\ (op = "scan_input" /\ patterns = _initialize_patterns /\ text = ContactExample)
       => ret.raised = "" /\ ~ret.contains_pii

\* C8: the credential-token validator accepts a candidate iff it holds a
\* letter, holds a digit and is at least 32 characters long.
C8_ApiKey ==
  (op = "_validate_match" /\ pii_type = API_KEY) =>
    ret = Returned(/\ \E i \in 1..Len(text) : text[i] \in UpperCase \cup LowerCase
                   /\ \E i \in 1..Len(text) : text[i] \in 48..57
                   /\ Len(text) >= 32)

\* the validator has accepted a token of exactly 32 characters
C8_Witness ==
  /\ op = "_validate_match"
  /\ pii_type = API_KEY
  /\ Len(text) = 32
  /\ ret = Returned(TRUE)

\* C4: the list _find_all_pii returns is sorted non-decreasing by start
\* offset and every match has 0 <= start_pos < end_pos <= len(text), for
\* every text and every registry reached by registrations.
C4_OffsetOrdering ==
  op \in {"scan_input", "scan_output"} =>
    /\ \A i \in 1..(Len(matches) - 1) : matches[i].start_pos <= matches[i + 1].start_pos
    /\ \A i \in 1..Len(matches) :
         /\ 0 <= matches[i].start_pos
         /\ matches[i].start_pos < matches[i].end_pos
         /\ matches[i].end_pos <= Len(text)

\* each match ends at or before the next one of the list starts
NoOverlap(ms) == \A i \in 1..(Len(ms) - 1) : ms[i].end_pos <= ms[i + 1].start_pos

\* scan_output has returned a sanitized text in mode mask or remove for a
\* list without overlaps
RedactedWithoutOverlap ==
  /\ op = "scan_output"
  /\ redaction_mode \in {"mask", "remove"}
  /\ ret.raised = ""
  /\ NoOverlap(matches)

\* what stands for a match in the sanitized text
Marker(m, mode) ==
  IF mode = "remove" THEN <<>>
  ELSE RedactedPrefix \o Upper(MemberValue(m.pii_type)) \o <<93>>

\* the text from offset pos on, with the matches from the i-th on replaced,
\* left to right
RECURSIVE RedactedFrom(_, _, _, _, _)
RedactedFrom(t, ms, i, pos, mode) ==
  IF i > Len(ms) THEN Slice(t, pos, Len(t))
  ELSE Slice(t, pos, ms[i].start_pos) \o Marker(ms[i], mode)
         \o RedactedFrom(t, ms, i + 1, ms[i].end_pos, mode)

\* C9, as the code has it: in mode mask or remove, for a list without
\* overlaps, the sanitized text is the text with the span of every match
\* replaced by its marker ([REDACTED_<TYPE>] in mask, nothing in remove), so
\* a marker starts at the match's start offset shifted by the length change
\* of the replacements before it.
C9_Redacted ==
  RedactedWithoutOverlap => ret.sanitized_text = RedactedFrom(text, matches, 1, 0, redaction_mode)

\* C9, as stated: in mode mask or remove, for a list without overlaps, the
\* sanitized text does not hold the raw value of any match at the match's
\* original start offset.
C9_RawValueGone ==
  RedactedWithoutOverlap =>
    \A i \in 1..Len(matches) :
      Slice(ret.sanitized_text, matches[i].start_pos, matches[i].end_pos) # matches[i].value

\* two matches were removed from "1.1.1.1 a@b.co       a@b.cotest.com", and
\* the text that moved up holds a@b.co at the offsets of the second match
C9_Witness ==
  /\ RedactedWithoutOverlap
  /\ redaction_mode = "remove"
  /\ text = EchoedEmail
  /\ Len(matches) = 2
  /\ matches[2].pii_type = EMAIL
  /\ Slice(ret.sanitized_text, matches[2].start_pos, matches[2].end_pos) = matches[2].value

(***************************************************************************)
(* Tokens across process runs: the scanner is used in mode tokenize, the   *)
(* process is restarted with a fresh hash seed, and the tokens handed out  *)
(* are recorded in issued.                                                 *)
(***************************************************************************)
RestartTexts == {TwoSsn, Ip192, IbanPassport}

\* the tokens a scan in mode tokenize put in place of its matches
TokensOf(ms, seed) ==
  {[pii_type |-> ms[i].pii_type, value |-> ms[i].value,
    token |-> Replacement(ms[i], "tokenize", seed).value] : i \in 1..Len(ms)}

ScanOutputObserved ==
  \E t \in RestartTexts :
    /\ ScanOutput(t)
    /\ issued' = IF redaction_mode = "tokenize" /\ ret'.raised = ""
                   THEN issued \cup TokensOf(matches', hash_seed)
                   ELSE issued

\* the process ends and a new one constructs its scanner
Restart ==
  /\ op = "idle"
  /\ hash_seed' \in Seeds
  /\ patterns' = _initialize_patterns
  /\ redaction_mode' = "mask"
  /\ UNCHANGED <<op, pii_type, text, mode_arg, matches, ret, issued, frame, metrics, suspended>>

NextRestart ==
  \/ SetRedactionModeCall
  \/ ScanOutputObserved
  \/ Return
  \/ Restart

SpecRestart == Init /\ [][NextRestart]_vars

\* C10: in mode tokenize the token of a match is a function of its type and
\* raw value only: two scans of the same value, in one process or in two
\* process runs with different hash seeds, put the same token in its place.
C10_TokenizeDeterminism ==
  \A a \in issued, b \in issued :
    (a.pii_type = b.pii_type /\ a.value = b.value) => a.token = b.token

(***************************************************************************)
(* Administration: the redaction mode is set and rules are registered with *)
(* patterns that compile or not and confidences inside and outside [0,1]   *)
(* (the model counts confidences in hundredths), with scans in between.    *)
(***************************************************************************)
\* "a@b.co 1"
EmailAndDigit == <<97, 64, 98, 46, 99, 111, 32, 49>>

AdminNames == {NameOfEmail, NameOfEmployeeId}
AdminPatterns == {DigitsRe.src, UnclosedRe.src}
\* confidence = -0.1, 0.8, 1.5
AdminConfidences == {-10, DefaultConfidence, 150}
AdminTexts == {<<>>, <<97>>, EmailAndDigit}

AdminRegisterCall ==
  \E name \in AdminNames, pattern \in AdminPatterns, confidence \in AdminConfidences :
    add_custom_pattern(name, pattern, confidence)
AdminScanInputCall == \E t \in AdminTexts : ScanInput(t)
AdminScanOutputCall == \E t \in AdminTexts : ScanOutput(t) /\ UNCHANGED issued

NextAdmin ==
  \/ SetRedactionModeCall
  \/ AdminRegisterCall
  \/ AdminScanInputCall
  \/ AdminScanOutputCall
  \/ Return

SpecAdmin == Init /\ [][NextAdmin]_vars

SupportedModes == {"mask", "remove", "tokenize"}

\* C11: set_redaction_mode with a value outside mask, remove, tokenize
\* raises an error and leaves the mode as it was; the mode is always one of
\* the three.
C11_ModeGuard ==
  /\ [](redaction_mode \in SupportedModes)
  /\ [][(op' = "set_redaction_mode" /\ mode_arg' \notin SupportedModes)
          => (ret'.raised # "" /\ redaction_mode' = redaction_mode)]_vars

\* an unsupported mode was refused while the mode was remove
C11_Witness ==
  /\ op = "set_redaction_mode"
  /\ mode_arg = "encrypt"
  /\ ret.raised = "ValueError"
  /\ redaction_mode = "remove"

ConfidenceRange == 0..100

\* C12: a registration with a confidence outside [0,1] fails with an error
\* and leaves the registry as it was, so every rule of the registry has a
\* confidence in [0,1].
C12_ConfidenceGuard ==
  /\ \A r \in 1..Len(patterns) : patterns[r].confidence \in ConfidenceRange
  /\ (op = "add_custom_pattern" /\ frame.confidence \notin ConfidenceRange) => ret.raised # ""

\* C13: a pattern that does not compile is refused at registration, the
\* registry unchanged, so no scan fails with a pattern error.
C13_PatternGuard ==
  /\ \A r \in 1..Len(patterns) : re_compile(patterns[r].pattern).compiles
  /\ (op = "add_custom_pattern" /\ ~re_compile(frame.pattern).compiles) => ret.raised # ""
  /\ op \in {"scan_input", "scan_output"} => ret.raised # "re.error"

\* the registry holds a rule for an organization-specific category (a plain
\* str key) whose pattern occurs in the text, and every pattern compiles
CustomCategoryMatches(pats, t) ==
  /\ \A r \in 1..Len(pats) : re_compile(pats[r].pattern).compiles
  /\ \E r \in 1..Len(pats) :
       /\ pats[r].key.kind = "str"
       /\ finditer(re_compile(pats[r].pattern).alts, t) # <<>>

\* C14: after an organization-specific category is registered with a valid
\* pattern, a scan of a text the pattern matches completes without error
\* and reports the category, with a count of at least 1.
C14_CustomCategory ==
  (op \in {"scan_input", "scan_output"} /\ CustomCategoryMatches(patterns, text)) =>
    /\ ret.raised = ""
    /\ ret.pii_count >= 1
    /\ \E r \in 1..Len(patterns) : patterns[r].key.kind = "str" /\ patterns[r].key.s \in ret.pii_types

\* the rule of the registry for a category
RuleOf(pats, key) == pats[CHOOSE r \in 1..Len(pats) : pats[r].key = key]

\* the occurrences of the pattern registered for the category, as spans
SpansOf(pats, key, t) ==
  {<<m.start, m.end>> : m \in
     {finditer(re_compile(RuleOf(pats, key).pattern).alts, t)[i] :
        i \in 1..Len(finditer(re_compile(RuleOf(pats, key).pattern).alts, t))}}

KeysDistinct(pats) ==
  \A r \in 1..Len(pats), q \in 1..Len(pats) : pats[r].key = pats[q].key => r = q

\* every match of a scan is an occurrence of the one rule its category has
\* now, with that rule's confidence
ScanUsesRegistry ==
  (op \in {"scan_input", "scan_output"} /\ ret.raised # "re.error") =>
    \A i \in 1..Len(matches) :
      /\ matches[i].confidence = RuleOf(patterns, matches[i].pii_type).confidence
      /\ <<matches[i].start_pos, matches[i].end_pos>> \in SpansOf(patterns, matches[i].pii_type, text)

\* a registration for a category that has a rule puts the new pattern and
\* confidence in its place and leaves the other rules and the number of
\* rules as they were
ReRegistrationReplaces ==
  (op' = "add_custom_pattern" /\ op = "idle"
     /\ \E r \in 1..Len(patterns) : patterns[r].key = pii_type') =>
    /\ Len(patterns') = Len(patterns)
    /\ \A r \in 1..Len(patterns) :
         IF patterns[r].key = pii_type'
           THEN /\ patterns'[r].key = pii_type'
                /\ patterns'[r].pattern = frame'.pattern
                /\ patterns'[r].confidence = frame'.confidence
                /\ patterns'[r].description.suffix = text'
           ELSE patterns'[r] = patterns[r]

\* C15: the registry holds exactly one rule per registered category: a
\* registration for a category that has a rule replaces the rule and keeps
\* the number of rules, and a later scan uses only the replacing rule.
C15_OneRulePerCategory ==
  /\ [](KeysDistinct(patterns) /\ ScanUsesRegistry)
  /\ [][ReRegistrationReplaces]_vars

\* email was registered again with \d+ and a scan of "a@b.co 1" reports the
\* digit, and not the address, as email
C15_Witness ==
  /\ op = "scan_input"
  /\ text = EmailAndDigit
  /\ RuleOf(patterns, EMAIL).pattern = DigitsRe.src
  /\ Len(patterns) = Len(_initialize_patterns)
  /\ \E i \in 1..Len(matches) : matches[i].pii_type = EMAIL /\ matches[i].start_pos = 7
  /\ ~\E i \in 1..Len(matches) : matches[i].pii_type = EMAIL /\ matches[i].start_pos = 0

\* the place of a category in the registry
KeyIndex(pats, key) == CHOOSE r \in 1..Len(pats) : pats[r].key = key

\* of two matches with the same start, the one whose category stands first
\* in the registry comes first
TiesInRegistryOrder ==
  op \in {"scan_input", "scan_output"} =>
    \A i \in 1..Len(matches), j \in 1..Len(matches) :
      (i < j /\ matches[i].start_pos = matches[j].start_pos) =>
        KeyIndex(patterns, matches[i].pii_type) <= KeyIndex(patterns, matches[j].pii_type)

\* a registration leaves every category that has a rule at its place, and
\* puts a category that has none after all of them
RegistrationKeepsOrder ==
  (op' = "add_custom_pattern" /\ op = "idle") =>
    /\ \A r \in 1..Len(patterns) : patterns'[r].key = patterns[r].key
    /\ Len(patterns') > Len(patterns) =>
         (Len(patterns') = Len(patterns) + 1 /\ patterns'[Len(patterns')].key = pii_type')

\* C23: of two matches with the same start offset the one of the category
\* registered first comes first in the list of _find_all_pii, also after a
\* built-in category was registered again and custom categories were added.
C23_TiesByRegistration ==
  /\ [](TiesInRegistryOrder)
  /\ [][RegistrationKeepsOrder]_vars

\* email was registered again and employee_id added, both with \d+: the
\* digit of "a@b.co 1" is reported as email first and as employee_id second
C23_Witness ==
  /\ op = "scan_input"
  /\ text = EmailAndDigit
  /\ RuleOf(patterns, EMAIL).pattern = DigitsRe.src
  /\ Len(matches) = 2
  /\ matches[1].start_pos = 7
  /\ matches[2].start_pos = 7
  /\ matches[1].pii_type = EMAIL
  /\ matches[2].pii_type = StrKey(NameOfEmployeeId)

(***************************************************************************)
(* One scanner shared by two threads.  A scan_output call runs step by     *)
(* step: one step per item of the loop over self.patterns.items() and one  *)
(* step per read of self.redaction_mode in the loop of _sanitize_text.     *)
(* The other thread registers rules and sets the mode in between; each of  *)
(* its calls is one store to self.patterns or self.redaction_mode.  frame  *)
(* holds the local variables of the scan: pc, text, the dict iterator      *)
(* (di_used, the size of the dict when the iterator was made, and r, its   *)
(* position), matches, the index i of the match being replaced, sanitized; *)
(* seen is the history of the values self.patterns had during the scan.    *)
(***************************************************************************)
ConcurrentTexts == {EmailAndDigit}
ConcurrentNames == {NameOfEmail, NameOfIpAddress, NameOfName}

InFlight == op = "scanning" /\ frame.call = "scan_output"

\* scan_output enters _find_all_pii, which makes the iterator of
\* self.patterns.items()
BeginScanOutput(t) ==
  /\ op = "idle"
  /\ op' = "scanning"
  /\ frame' = [call |-> "scan_output", pc |-> "for", text |-> t,
               di_used |-> Len(patterns), r |-> 1, matches |-> <<>>,
               i |-> 0, sanitized |-> <<>>, seen |-> {patterns}]
  /\ UNCHANGED <<patterns, redaction_mode, hash_seed, pii_type, text, mode_arg, matches, ret, issued, metrics, suspended>>

\* the call ends with an exception
ScanOutputRaises(e) ==
  /\ op' = "scan_output"
  /\ text' = frame.text
  /\ matches' = <<>>
  /\ ret' = [raised |-> e]
  /\ frame' = [frame EXCEPT !.pc = "raised"]

\* the body of the loop for one item of self.patterns
RuleStep(rule, t, acc, compiled) ==
  IF ~compiled.compiles THEN FindRaised("re.error")
  ELSE ValidateMatches(rule, t, finditer(compiled.alts, t), acc)

\* after the loop: matches.sort, return to scan_output, which enters
\* _sanitize_text: "if not matches: return text", else sanitized = text and
\* the loop starts at the last match
EnterSanitize(sorted) ==
  /\ frame' = [frame EXCEPT !.matches = sorted,
                            !.sanitized = frame.text,
                            !.i = Len(sorted),
                            !.pc = IF sorted = <<>> THEN "return" ELSE "if"]
  /\ UNCHANGED <<op, text, matches, ret>>

RuleDone(got) ==
  IF got.raised # "" THEN ScanOutputRaises(got.raised)
  ELSE /\ frame' = [frame EXCEPT !.matches = got.matches, !.r = frame.r + 1]
       /\ UNCHANGED <<op, text, matches, ret>>

\* next() of the dict iterator, then the body of the loop for the item: the
\* iterator raises when the dict has another size than when it was made,
\* ends after the last item, and else gives the item self.patterns has at
\* its position now
ForRule ==
  /\ InFlight
  /\ frame.pc = "for"
  /\ IF Len(patterns) # frame.di_used THEN ScanOutputRaises("RuntimeError")
     ELSE IF frame.r > Len(patterns) THEN EnterSanitize(SortByStart(frame.matches))
     ELSE RuleDone(RuleStep(patterns[frame.r], frame.text, frame.matches,
                            re_compile(patterns[frame.r].pattern)))
  /\ UNCHANGED <<patterns, redaction_mode, hash_seed, pii_type, mode_arg, issued, metrics, suspended>>

\* the splice of one iteration, then the next match down or the end of the
\* loop
Replaced(m, r) ==
  IF r.raised # "" THEN ScanOutputRaises(r.raised)
  ELSE /\ frame' = [frame EXCEPT !.sanitized = Splice(frame.sanitized, m, r.value),
                                 !.i = frame.i - 1,
                                 !.pc = IF frame.i = 1 THEN "return" ELSE "if"]
       /\ UNCHANGED <<op, text, matches, ret>>

\* if self.redaction_mode == "mask": a read of the attribute
SanitizeIf ==
  /\ InFlight
  /\ frame.pc = "if"
  /\ IF redaction_mode = "mask"
       THEN Replaced(frame.matches[frame.i], Replacement(frame.matches[frame.i], "mask", hash_seed))
       ELSE frame' = [frame EXCEPT !.pc = "elif"] /\ UNCHANGED <<op, text, matches, ret>>
  /\ UNCHANGED <<patterns, redaction_mode, hash_seed, pii_type, mode_arg, issued, metrics, suspended>>

\* elif self.redaction_mode == "remove": a second read; else: tokenize
SanitizeElif ==
  /\ InFlight
  /\ frame.pc = "elif"
  /\ Replaced(frame.matches[frame.i],
              Replacement(frame.matches[frame.i],
                          IF redaction_mode = "remove" THEN "remove" ELSE "tokenize", hash_seed))
  /\ UNCHANGED <<patterns, redaction_mode, hash_seed, pii_type, mode_arg, issued, metrics, suspended>>

\* scan_output builds its result from matches and sanitized_text
ScanOutputEnds ==
  /\ InFlight
  /\ frame.pc = "return"
  /\ op' = "scan_output"
  /\ text' = frame.text
  /\ matches' = frame.matches
  /\ ret' = OutputResult(Found(frame.matches), frame.matches, Returned(frame.sanitized))
  /\ UNCHANGED <<patterns, redaction_mode, hash_seed, pii_type, mode_arg, issued, frame, metrics, suspended>>

\* the other thread's add_custom_pattern: the store self.patterns[key] = ...
ConcurrentRegister(name, pattern, confidence) ==
  /\ InFlight
  /\ patterns' = DictSet(patterns,
       Rule(CustomKey(name), pattern, confidence,
            Description("Patron personalizado: ", name)))
  /\ frame' = [frame EXCEPT !.seen = frame.seen \cup {patterns'}]
  /\ UNCHANGED <<redaction_mode, hash_seed, op, pii_type, text, mode_arg, matches, ret, issued, metrics, suspended>>

\* the other thread's set_redaction_mode with a supported mode: the store
\* self.redaction_mode = mode
ConcurrentSetMode(m) ==
  /\ InFlight
  /\ redaction_mode' = m
  /\ UNCHANGED <<patterns, hash_seed, op, pii_type, text, mode_arg, matches, ret, issued, frame, metrics, suspended>>

BeginScanOutputCall == \E t \in ConcurrentTexts : BeginScanOutput(t)
ConcurrentRegisterCall ==
  \E name \in ConcurrentNames : ConcurrentRegister(name, DigitsRe.src, DefaultConfidence)
ConcurrentSetModeCall == \E m \in SupportedModes : ConcurrentSetMode(m)

NextConcurrent ==
  \/ BeginScanOutputCall
  \/ ForRule
  \/ SanitizeIf
  \/ SanitizeElif
  \/ ScanOutputEnds
  \/ ConcurrentRegisterCall
  \/ ConcurrentSetModeCall
  \/ Return

SpecConcurrent == Init /\ [][NextConcurrent]_vars

ScanOutputEnded == op = "scan_output" /\ frame.call = "scan_output"

\* C16: a scan with a registration interleaved completes, and its findings
\* are those of one of the rule sets the registry held during the scan:
\* never a mixture, never a failure caused by the registry changing.
C16_ConsistentRuleSet ==
  ScanOutputEnded =>
    /\ ret.raised = ""
    /\ \E reg \in frame.seen : _find_all_pii(reg, text) = Found(matches)

\* C17: every finding of one scan_output call is redacted under the same
\* mode, also when set_redaction_mode runs between two findings: the
\* sanitized text is the one _sanitize_text gives under a single mode.
C17_OneModePerScan ==
  (ScanOutputEnded /\ ret.raised = "") =>
    \E mode \in SupportedModes :
      ret.sanitized_text = _sanitize_text(text, matches, mode, hash_seed).value

(***************************************************************************)
(* The scans with the built-in rules only, on the empty text, every short  *)
(* text over a few characters the patterns are made of, partial shapes of  *)
(* the patterns, candidates the validators refuse and texts with findings. *)
(***************************************************************************)
MaxShapeLen == 2

\* '1', '.', '@', 'a', '-', ' '
ShapeAlphabet == {49, 46, 64, 97, 45, 32}
ShortShapes == UNION {[1..n -> ShapeAlphabet] : n \in 0..MaxShapeLen}

\* "a@b."
PartialEmail == <<97, 64, 98, 46>>
\* "123-45-678"
PartialSsn == <<49, 50, 51, 45, 52, 53, 45, 54, 55, 56>>
\* "AKIA1234"
PartialAwsKey == <<65, 75, 73, 65, 49, 50, 51, 52>>
\* "-----BEGIN PRIVATE"
PartialPrivateKey == <<45, 45, 45, 45, 45, 66, 69, 71, 73, 78, 32, 80, 82, 73, 86, 65, 84, 69>>

PartialShapes == {PartialEmail, PartialSsn, PartialAwsKey, PartialPrivateKey, ThreeParts}
TotalTexts == ShortShapes \cup PartialShapes \cup GateTexts \cup {TwoSsn, IbanPassport}

TotalScanInputCall == \E t \in TotalTexts : ScanInput(t)
TotalScanOutputCall == \E t \in TotalTexts : ScanOutput(t) /\ UNCHANGED issued

NextTotal ==
  \/ TotalScanInputCall
  \/ TotalScanOutputCall
  \/ SetRedactionModeCall
  \/ Return

SpecTotal == Init /\ [][NextTotal]_vars

\* no pattern of the registry occurs in the text
NoRuleMatches(pats, t) ==
  \A r \in 1..Len(pats) : finditer(re_compile(pats[r].pattern).alts, t) = <<>>

\* C18: with the built-in rules scan_input and scan_output return a result
\* for every text, and for the empty text and any text no rule matches the
\* result has contains_pii false, pii_count 0 and risk_level none.
C18_Total ==
  op \in {"scan_input", "scan_output"} =>
    /\ ret.raised = ""
    /\ (text = <<>> \/ NoRuleMatches(patterns, text) \/ matches = <<>>) =>
         (~ret.contains_pii /\ ret.pii_count = 0 /\ ret.risk_level = "none")

\* the empty text was scanned, and a text that is a part of a pattern
C18_Witness ==
  /\ op = "scan_output"
  /\ text \in {<<>>, PartialSsn}
  /\ NoRuleMatches(patterns, text)
  /\ ret.raised = ""
  /\ ret.sanitized_text = text
  /\ ret.risk_level = "none"

\* the occurrences of a rule's pattern in the text
Occurrences(rule, t) == finditer(re_compile(rule.pattern).alts, t)

\* the match an occurrence gives under its rule
FindingOf(rule, t, o) ==
  PIIMatch(rule.key, Slice(t, o.start, o.end), o.start, o.end, rule.confidence)

\* the matches of the occurrences of one rule that its validator accepts
AcceptedOf(rule, t, occ) ==
  {FindingOf(rule, t, occ[i]) :
     i \in {k \in 1..Len(occ) :
              _validate_match(rule.key, Slice(t, occ[k].start, occ[k].end)) = Returned(TRUE)}}

AcceptedFindings(pats, t) ==
  UNION {AcceptedOf(pats[r], t, Occurrences(pats[r], t)) : r \in 1..Len(pats)}

\* C22: the list of _find_all_pii holds exactly one match per rule and
\* occurrence the rule's validator accepts, and no other; a match carries
\* its rule's confidence and the occurrence's text and offsets, and an
\* occurrence accepted under two categories is there twice.
C22_ExactlyTheAccepted ==
  (op \in {"scan_input", "scan_output"} /\ ret.raised = "") =>
    /\ {matches[k] : k \in 1..Len(matches)} = AcceptedFindings(patterns, text)
    /\ Len(matches) = Cardinality(AcceptedFindings(patterns, text))

\* "AB123456" was reported as iban and as passport_number, at the same
\* span
C22_Witness ==
  /\ op = "scan_input"
  /\ text = IbanPassport
  /\ ret.raised = ""
  /\ Len(matches) = 2
  /\ matches[1].pii_type = IBAN
  /\ matches[2].pii_type = PASSPORT
  /\ matches[1].start_pos = matches[2].start_pos
  /\ matches[1].end_pos = matches[2].end_pos

(***************************************************************************)
(* generate_dlp_report on the results of the scans.  The report is kept as *)
(* the values its lines are formatted from; the detail lines are a set,    *)
(* for list(set(...)) gives pii_types in an order that varies.             *)
(***************************************************************************)
\* scan_result['risk_level'].upper()
LevelUpper(level) ==
  CASE level = "critical" -> "CRITICAL"
    [] level = "high" -> "HIGH"
    [] level = "medium" -> "MEDIUM"
    [] level = "low" -> "LOW"
    [] level = "none" -> "NONE"

\* sum(1 for m in scan_result['matches'] if m['type'] == pii_type)
InstancesOf(ms, type) == Cardinality({k \in 1..Len(ms) : ms[k].type = type})

\* the lines from the header to the footer
AlertReport(scan_result) ==
  [alert |-> TRUE,
   risk_level |-> LevelUpper(scan_result.risk_level),
   types |-> Cardinality(scan_result.pii_types),
   instances |-> scan_result.pii_count,
   details |-> {[type |-> type, count |-> InstancesOf(scan_result.matches, type)] :
                  type \in scan_result.pii_types},
   footer |-> TRUE]

\* scan_result['matches'] in the first iteration of the loop over pii_types
\* raises KeyError for a dict without the key
generate_dlp_report(scan_result) ==
  IF ~scan_result.contains_pii THEN Returned([alert |-> FALSE])
  ELSE IF scan_result.pii_types # {} /\ "matches" \notin DOMAIN scan_result THEN Raised("KeyError")
  ELSE Returned(AlertReport(scan_result))

\* the caller hands the result of the scan that just returned to
\* generate_dlp_report
GenerateReport ==
  /\ op \in {"scan_input", "scan_output"}
  /\ ret.raised = ""
  /\ op' = "generate_dlp_report"
  /\ frame' = [call |-> "generate_dlp_report", scan_result |-> ret, scan |-> op]
  /\ ret' = generate_dlp_report(ret)
  /\ UNCHANGED <<patterns, redaction_mode, hash_seed, pii_type, text, mode_arg, matches, issued, metrics, suspended>>

ReportTexts == GateTexts \cup {<<>>, TwoSsn, IbanPassport, EmailAndDigit}

ReportScanInputCall == \E t \in ReportTexts : ScanInput(t)
ReportScanOutputCall == \E t \in ReportTexts : ScanOutput(t) /\ UNCHANGED issued

NextReport ==
  \/ ReportScanInputCall
  \/ ReportScanOutputCall
  \/ SetRedactionModeCall
  \/ GenerateReport
  \/ Return

SpecReport == Init /\ [][NextReport]_vars

\* the number of findings of the scan in a category
FindingsOf(ms, type) ==
  Cardinality({k \in 1..Len(ms) : MemberValue(ms[k].pii_type) = type})

\* C19: generate_dlp_report returns a summary for every result of
\* scan_input and every result of scan_output, with or without findings;
\* with findings the summary holds the risk level, the count of each
\* category and the action-required footer.
C19_ReportForEveryResult ==
  op = "generate_dlp_report" =>
    /\ ret.raised = ""
    /\ matches # <<>> =>
         /\ ret.value.risk_level = LevelUpper(frame.scan_result.risk_level)
         /\ \A k \in 1..Len(matches) :
              [type |-> MemberValue(matches[k].pii_type),
               count |-> FindingsOf(matches, MemberValue(matches[k].pii_type))]
                \in ret.value.details
         /\ ret.value.footer

(***************************************************************************)
(* The gateway (main.py): proxy_llm_request with the module's scanner,     *)
(* which keeps the built-in rules and the mode mask, and the module's      *)
(* metrics.  frame holds the handler's local variables; a local that was   *)
(* not assigned yet is Unbound.  injection_detector is imported from a     *)
(* module the repository does not hold: its scan answers is_malicious      *)
(* either way.  One request is handled at a time.                          *)
(***************************************************************************)
MaxRequests == 2

Unbound == [bound |-> FALSE]
Bound(v) == [bound |-> TRUE, value |-> v]

\* "injection", "dlp_input", "dlp_output", "dlp", "pii"
ReasonInjection == <<105, 110, 106, 101, 99, 116, 105, 111, 110>>
ReasonDlpInput == <<100, 108, 112, 95, 105, 110, 112, 117, 116>>
ReasonDlpOutput == <<100, 108, 112, 95, 111, 117, 116, 112, 117, 116>>
NeedleDlp == <<100, 108, 112>>
NeedlePii == <<112, 105, 105>>

\* a variant of the attribution that knows the reasons of the input checks
\* only
BlockedOnInput(m, reason) ==
  IF reason = ReasonInjection THEN [m EXCEPT !.injection_attempts = @ + 1]
  ELSE IF reason = ReasonDlpInput THEN [m EXCEPT !.dlp_violations = @ + 1]
  ELSE m

\* SecurityMetrics.record_request(blocked, reason)
Blocked(m, reason) ==
  IF Contains(Lower(reason), ReasonInjection)
    THEN [m EXCEPT !.injection_attempts = @ + 1]
  ELSE IF Contains(Lower(reason), NeedleDlp) \/ Contains(Lower(reason), NeedlePii)
    THEN [m EXCEPT !.dlp_violations = @ + 1]
  ELSE m

record_request(m, blocked, reason) ==
  IF blocked
    THEN Blocked([m EXCEPT !.total_requests = @ + 1, !.blocked_requests = @ + 1], reason)
    ELSE [m EXCEPT !.total_requests = @ + 1]

\* "Esta es una respuesta simulada del modelo "
ResponsePrefix ==
  <<69, 115, 116, 97, 32, 101, 115, 32, 117, 110, 97, 32, 114, 101, 115,
    112, 117, 101, 115, 116, 97, 32, 115, 105, 109, 117, 108, 97, 100, 97,
    32, 100, 101, 108, 32, 109, 111, 100, 101, 108, 111, 32>>
\* " al prompt del usuario."
ResponseSuffix ==
  <<32, 97, 108, 32, 112, 114, 111, 109, 112, 116, 32, 100, 101, 108, 32,
    117, 115, 117, 97, 114, 105, 111, 46>>

call_llm_backend(request) == ResponsePrefix \o request.model \o ResponseSuffix

\* "gpt-4"
ModelGpt4 == <<103, 112, 116, 45, 52>>

\* a variant of the test of the input scan that lets low and medium risk pass
HighRiskOnly(dlp_result) == dlp_result.risk_level \in {"high", "critical"}

\* if dlp_result['contains_pii']
InputHasPii(dlp_result) == dlp_result.contains_pii

\* JSONResponse(status_code=403, ...)
Forbidden(type) == [raised |-> "", status_code |-> 403, type |-> type]

\* the request arrives: the handler starts with no local assigned
ReceiveRequest(prompt, model) ==
  /\ op = "idle"
  /\ metrics.total_requests < MaxRequests
  /\ op' = "proxy_llm_request"
  /\ frame' = [call |-> "proxy_llm_request", pc |-> "injection",
               request |-> [prompt |-> prompt, model |-> model],
               injection_result |-> Unbound, dlp_result |-> Unbound,
               llm_response_text |-> Unbound, dlp_output_result |-> Unbound]
  /\ UNCHANGED <<patterns, redaction_mode, hash_seed, pii_type, text, mode_arg, matches, ret, issued, metrics, suspended>>

Responds(response) ==
  /\ ret' = response
  /\ UNCHANGED <<patterns, redaction_mode, hash_seed, op, pii_type, text, mode_arg, matches, issued, suspended>>

Continues ==
  UNCHANGED <<patterns, redaction_mode, hash_seed, op, pii_type, text, mode_arg, matches, ret, issued, metrics, suspended>>

\* 1.1: injection_detector.scan(request.prompt) and the test of its answer
InjectionScan(is_malicious) ==
  /\ op = "proxy_llm_request"
  /\ frame.pc = "injection"
  /\ IF is_malicious
       THEN /\ frame' = [frame EXCEPT !.injection_result = [is_malicious |-> TRUE], !.pc = "done"]
            /\ metrics' = record_request(metrics, TRUE, ReasonInjection)
            /\ Responds(Forbidden("prompt_injection_detected"))
       ELSE /\ frame' = [frame EXCEPT !.injection_result = [is_malicious |-> FALSE], !.pc = "dlp_input"]
            /\ Continues

InputScanned(dlp_result) ==
  IF InputHasPii(dlp_result)
    THEN /\ frame' = [frame EXCEPT !.dlp_result = dlp_result, !.pc = "done"]
         /\ metrics' = record_request(metrics, TRUE, ReasonDlpInput)
         /\ Responds(Forbidden("pii_detected"))
    ELSE /\ frame' = [frame EXCEPT !.dlp_result = dlp_result, !.pc = "backend"]
         /\ Continues

\* 1.2: dlp_scanner.scan_input(request.prompt) and the test of its result
DlpInputScan ==
  /\ op = "proxy_llm_request"
  /\ frame.pc = "dlp_input"
  /\ InputScanned(scan_input(_find_all_pii(patterns, frame.request.prompt)))

\* phase 2: await call_llm_backend(request)
CallLlmBackend ==
  /\ op = "proxy_llm_request"
  /\ frame.pc = "backend"
  /\ frame' = [frame EXCEPT !.llm_response_text = Bound(call_llm_backend(frame.request)),
                            !.pc = "dlp_output"]
  /\ Continues

\* a variant of the output branch that records the finding and keeps the
\* raw completion
OutputScannedKeepsRaw(dlp_output_result) ==
  /\ frame' = [frame EXCEPT !.dlp_output_result = dlp_output_result, !.pc = "audit"]
  /\ metrics' = IF dlp_output_result.contains_pii
                  THEN record_request(metrics, TRUE, ReasonDlpOutput)
                  ELSE metrics

OutputScanned(dlp_output_result) ==
  IF dlp_output_result.contains_pii
    THEN /\ frame' = [frame EXCEPT !.dlp_output_result = dlp_output_result,
                                   !.llm_response_text = Bound(dlp_output_result.sanitized_text),
                                   !.pc = "audit"]
         /\ metrics' = record_request(metrics, TRUE, ReasonDlpOutput)
    ELSE /\ frame' = [frame EXCEPT !.dlp_output_result = dlp_output_result, !.pc = "audit"]
         /\ metrics' = metrics

\* 3.1: dlp_scanner.scan_output(llm_response_text) and the test of its result
DlpOutputScan ==
  /\ op = "proxy_llm_request"
  /\ frame.pc = "dlp_output"
  /\ OutputScanned(scan_output(_find_all_pii(patterns, frame.llm_response_text.value),
                               frame.llm_response_text.value, redaction_mode, hash_seed))
  /\ UNCHANGED <<patterns, redaction_mode, hash_seed, op, pii_type, text, mode_arg, matches, ret, issued, suspended>>

\* phase 4: the audit log, metrics.record_request(blocked=False) and the
\* response
Respond ==
  /\ op = "proxy_llm_request"
  /\ frame.pc = "audit"
  /\ frame' = [frame EXCEPT !.pc = "done"]
  /\ metrics' = record_request(metrics, FALSE, <<>>)
  /\ Responds([raised |-> "", status_code |-> 200,
               content |-> frame.llm_response_text.value,
               model |-> frame.request.model, blocked |-> FALSE])

\* the response goes out and the handler's frame is gone
RequestDone ==
  /\ op = "proxy_llm_request"
  /\ frame.pc = "done"
  /\ Return

GatewayPrompts == {<<>>, <<97>>, Ip192, TwoSsn, EmailAndDigit}
GatewayModels == {ModelGpt4, Ip192}

ReceiveRequestCall == \E prompt \in GatewayPrompts, model \in GatewayModels : ReceiveRequest(prompt, model)
InjectionScanCall == \E is_malicious \in BOOLEAN : InjectionScan(is_malicious)

NextGateway ==
  \/ ReceiveRequestCall
  \/ InjectionScanCall
  \/ DlpInputScan
  \/ CallLlmBackend
  \/ DlpOutputScan
  \/ Respond
  \/ RequestDone

SpecGateway == Init /\ [][NextGateway]_vars

(***************************************************************************)
(* Requests in flight together.  The handlers are coroutines of one event  *)
(* loop: a handler runs alone from one await to the next, and at its one   *)
(* await, of call_llm_backend, the loop can start or resume another        *)
(* handler.                                                                *)
(***************************************************************************)
MaxSuspended == 2

\* at "await call_llm_backend(request)" the handler is set aside
Suspend ==
  /\ op = "proxy_llm_request"
  /\ frame.pc = "backend"
  /\ Len(suspended) < MaxSuspended
  /\ suspended' = Append(suspended, frame)
  /\ frame' = NoFrame
  /\ op' = "idle"
  /\ UNCHANGED <<patterns, redaction_mode, hash_seed, pii_type, text, mode_arg, matches, ret, issued, metrics>>

\* the loop resumes one of the handlers it set aside
Resume ==
  /\ op = "idle"
  /\ \E i \in 1..Len(suspended) :
       /\ frame' = suspended[i]
       /\ suspended' = SubSeq(suspended, 1, i - 1) \o SubSeq(suspended, i + 1, Len(suspended))
  /\ op' = "proxy_llm_request"
  /\ UNCHANGED <<patterns, redaction_mode, hash_seed, pii_type, text, mode_arg, matches, ret, issued, metrics>>

NextGatewayAsync ==
  \/ ReceiveRequestCall
  \/ InjectionScanCall
  \/ DlpInputScan
  \/ CallLlmBackend
  \/ DlpOutputScan
  \/ Respond
  \/ RequestDone
  \/ Suspend
  \/ Resume

SpecGatewayAsync == Init /\ [][NextGatewayAsync]_vars

\* C25: in every state of the metrics, under any interleaving of requests,
\* 0 <= blocked_requests <= total_requests and injection_attempts +
\* dlp_violations = blocked_requests.
C25_MetricsInvariant ==
  /\ 0 <= metrics.blocked_requests
  /\ metrics.blocked_requests <= metrics.total_requests
  /\ metrics.injection_attempts + metrics.dlp_violations = metrics.blocked_requests

\* while a handler waits for the backend another request was rejected, and
\* both kinds of rejection have been counted
C25_Witness ==
  /\ Len(suspended) >= 1
  /\ frame.call = "proxy_llm_request"
  /\ frame.pc = "done"
  /\ metrics.injection_attempts >= 1
  /\ metrics.dlp_violations >= 1
  /\ metrics.blocked_requests = metrics.injection_attempts + metrics.dlp_violations

InHandler == frame.call = "proxy_llm_request"

\* the handler has answered with status 403
Rejected == "status_code" \in DOMAIN ret /\ ret.status_code = 403

\* C20: a prompt whose input scan has contains_pii true is answered with
\* 403, and for it the backend is not called and no output scan is run;
\* the backend is called only after the injection check and the input scan
\* have both passed.
C20_InputGate ==
  InHandler =>
    /\ (frame.dlp_result # Unbound /\ frame.dlp_result.contains_pii) =>
         /\ Rejected
         /\ frame.llm_response_text = Unbound
         /\ frame.dlp_output_result = Unbound
    /\ (frame.llm_response_text # Unbound \/ frame.pc = "backend") =>
         /\ frame.injection_result = [is_malicious |-> FALSE]
         /\ frame.dlp_result # Unbound
         /\ ~frame.dlp_result.contains_pii

\* a prompt with an address passed the injection check and was rejected
C20_Witness ==
  /\ InHandler
  /\ frame.request.prompt = EmailAndDigit
  /\ frame.injection_result = [is_malicious |-> FALSE]
  /\ frame.dlp_result # Unbound
  /\ frame.dlp_result.contains_pii
  /\ Rejected
  /\ metrics.dlp_violations >= 1

\* the step in which the handler answers
Answers == InHandler' /\ frame'.pc = "done" /\ ~(InHandler /\ frame.pc = "done")

\* total_requests goes up by one in the step that answers and in no other
\* step; blocked_requests goes up only in a step that answers with 403
CountedOnce ==
  /\ Answers => metrics'.total_requests = metrics.total_requests + 1
  /\ metrics'.total_requests # metrics.total_requests => Answers
  /\ metrics'.blocked_requests # metrics.blocked_requests =>
       (Answers /\ "status_code" \in DOMAIN ret' /\ ret'.status_code = 403)

\* C24: every request handled by proxy_llm_request adds exactly one to
\* total_requests, and adds to blocked_requests only when it is answered
\* with a rejection.
C24_CountedOnce == [][CountedOnce]_vars

\* the handler has answered with status 200
Answered200 ==
  InHandler /\ frame.pc = "done" /\ "status_code" \in DOMAIN ret /\ ret.status_code = 200

\* C26: when the output scan reports findings the content returned is the
\* scan's sanitized text and not the raw completion; when it reports none
\* the content is the completion unchanged, which is also the sanitized
\* text.
C26_SanitizedContent ==
  Answered200 =>
    IF frame.dlp_output_result.contains_pii
      THEN /\ ret.content = frame.dlp_output_result.sanitized_text
           /\ ret.content # call_llm_backend(frame.request)
      ELSE /\ ret.content = call_llm_backend(frame.request)
           /\ frame.dlp_output_result.sanitized_text = call_llm_backend(frame.request)

\* the completion held an IP address and the content returned has the
\* marker in its place
C26_Witness ==
  /\ Answered200
  /\ frame.request.model = Ip192
  /\ frame.dlp_output_result.contains_pii
  /\ ret.content = ResponsePrefix \o RedactedPrefix \o Upper(MemberValue(IP_ADDRESS)) \o <<93>>
                      \o ResponseSuffix

(***************************************************************************)
(* _sanitize_text on its own: a text, a list of matches sorted by          *)
(* start_pos as _find_all_pii leaves it, a mode and a hash seed are drawn  *)
(* and the sanitizer is applied to them.                                   *)
(***************************************************************************)
MaxSanitizeLen == 2
MaxSanitizeFindings == 2

\* texts over '1' and 'a'
SanitizeTexts == UNION {[1..n -> {49, 97}] : n \in 0..MaxSanitizeLen}

Spans(t) == {sp \in (0..Len(t)) \X (0..Len(t)) : sp[1] <= sp[2]}

\* the matches a rule for EMAIL or NAME can give in the text: any span,
\* empty ones included, with the text of the span as value
SpanMatches(t) ==
  {PIIMatch(c, Slice(t, sp[1], sp[2]), sp[1], sp[2], DefaultConfidence) :
     c \in {EMAIL, NAME}, sp \in Spans(t)}

SortedByStart(ms) == \A i \in 1..(Len(ms) - 1) : ms[i].start_pos <= ms[i + 1].start_pos

FindingLists(t) ==
  {ms \in UNION {[1..n -> SpanMatches(t)] : n \in 0..MaxSanitizeFindings} : SortedByStart(ms)}

InitSanitize ==
  /\ patterns = _initialize_patterns
  /\ redaction_mode \in SupportedModes
  /\ hash_seed \in Seeds
  /\ issued = {}
  /\ frame = NoFrame
  /\ metrics = SecurityMetrics
  /\ suspended = <<>>
  /\ op = "idle"
  /\ pii_type = NoType
  /\ text \in SanitizeTexts
  /\ matches \in FindingLists(text)
  /\ mode_arg = ""
  /\ ret = NoReturn

\* self._sanitize_text(text, matches)
SanitizeText ==
  /\ op = "idle"
  /\ op' = "_sanitize_text"
  /\ ret' = _sanitize_text(text, matches, redaction_mode, hash_seed)
  /\ UNCHANGED <<patterns, redaction_mode, hash_seed, pii_type, text, mode_arg, matches, issued, frame, metrics, suspended>>

NextSanitize ==
  \/ SanitizeText
  \/ SetRedactionModeCall
  \/ Return

SpecSanitize == InitSanitize /\ [][NextSanitize]_vars

\* no two spans of the list share a character
PairwiseDisjoint(ms) ==
  \A i \in 1..Len(ms), j \in 1..Len(ms) :
    i < j => (ms[i].end_pos <= ms[j].start_pos \/ ms[j].end_pos <= ms[i].start_pos)

\* the place of the i-th match in the order of the spans in the text: by
\* start, an empty span before the span that starts where it stands, equal
\* spans in list order
SpanRank(ms, i) ==
  Cardinality({j \in 1..Len(ms) :
                 \/ ms[j].start_pos < ms[i].start_pos
                 \/ ms[j].start_pos = ms[i].start_pos /\ ms[j].end_pos < ms[i].end_pos
                 \/ ms[j].start_pos = ms[i].start_pos /\ ms[j].end_pos = ms[i].end_pos /\ j < i}) + 1

InSpanOrder(ms) ==
  [k \in 1..Len(ms) |-> ms[CHOOSE i \in 1..Len(ms) : SpanRank(ms, i) = k]]

\* all spans replaced at once: the text from offset pos on with the matches
\* from the i-th on, in span order, replaced by their own replacements
RECURSIVE ReplacedAtOnce(_, _, _, _, _, _)
ReplacedAtOnce(t, ms, i, pos, mode, seed) ==
  IF i > Len(ms) THEN Slice(t, pos, Len(t))
  ELSE Slice(t, pos, ms[i].start_pos) \o Replacement(ms[i], mode, seed).value
         \o ReplacedAtOnce(t, ms, i + 1, ms[i].end_pos, mode, seed)

\* C21: for a list with pairwise non-overlapping spans _sanitize_text
\* returns the text with all spans replaced at once: the stretches between
\* the spans in their order and each span replaced by its match's own
\* replacement.
C21_SimultaneousReplacement ==
  (op = "_sanitize_text" /\ PairwiseDisjoint(matches)) =>
    /\ ret.raised = ""
    /\ ret.value = ReplacedAtOnce(text, InSpanOrder(matches), 1, 0, redaction_mode, hash_seed)

(***************************************************************************)
(* _calculate_risk_level on its own: a list of matches is built up one     *)
(* match at a time, reordered and retouched, and classified after every    *)
(* change.                                                                 *)
(***************************************************************************)
MaxFindings == 3

\* the categories a match can carry: the members of PIIType and a plain str
Categories == PIIMembers \cup {StrKey(NameOfEmployeeId)}

\* matches of a category; SSN and EMAIL come in a second shape with other
\* value, offsets and confidence
FindingSamples ==
  {PIIMatch(c, <<120>>, 0, 1, 80) : c \in Categories}
    \cup {PIIMatch(c, <<121, 121>>, 5, 7, 95) : c \in {SSN, EMAIL}}

Classified(ms) == [raised |-> "", risk_level |-> _calculate_risk_level(ms)]

InitClassify ==
  /\ patterns = _initialize_patterns
  /\ redaction_mode = "mask"
  /\ hash_seed = 0
  /\ issued = {}
  /\ frame = NoFrame
  /\ metrics = SecurityMetrics
  /\ suspended = <<>>
  /\ op = "classify"
  /\ pii_type = NoType
  /\ text = <<>>
  /\ mode_arg = ""
  /\ matches = <<>>
  /\ ret = Classified(<<>>)

Classify(ms, step) ==
  /\ matches' = ms
  /\ ret' = Classified(ms)
  /\ op' = step
  /\ UNCHANGED <<patterns, redaction_mode, hash_seed, issued, pii_type, text, mode_arg, frame, metrics, suspended>>

AddFinding ==
  /\ Len(matches) < MaxFindings
  /\ \E m \in FindingSamples : Classify(Append(matches, m), "add")

SwapFindings ==
  \E i \in 1..(Len(matches) - 1) :
    Classify([matches EXCEPT ![i] = matches[i + 1], ![i + 1] = matches[i]], "swap")

RetouchFinding ==
  \E i \in 1..Len(matches), m \in FindingSamples :
    /\ m.pii_type = matches[i].pii_type
    /\ m # matches[i]
    /\ Classify([matches EXCEPT ![i] = m], "retouch")

NextClassify == AddFinding \/ SwapFindings \/ RetouchFinding

SpecClassify == InitClassify /\ [][NextClassify]_vars

\* the order none < low < medium < high < critical
RiskRank(level) ==
  CASE level = "none" -> 0
    [] level = "low" -> 1
    [] level = "medium" -> 2
    [] level = "high" -> 3
    [] level = "critical" -> 4

HighSeverity == {SSN, CREDIT_CARD, PASSPORT, AWS_KEY, PRIVATE_KEY}
MediumSeverity == {EMAIL, PHONE, IBAN, DRIVER_LICENSE, API_KEY}

NumberOf(ms, cats) == Cardinality({i \in 1..Len(ms) : ms[i].pii_type \in cats})

ThresholdTable(ms) ==
  IF Len(ms) = 0 THEN "none"
  ELSE IF NumberOf(ms, HighSeverity) >= 2 THEN "critical"
  ELSE IF NumberOf(ms, HighSeverity) >= 1 THEN "high"
  ELSE IF NumberOf(ms, MediumSeverity) >= 3 THEN "high"
  ELSE IF NumberOf(ms, MediumSeverity) >= 1 THEN "medium"
  ELSE "low"

\* C1: for every list of matches, _calculate_risk_level returns the result
\* of the ordered threshold table: none iff the list is empty, else critical
\* with 2 or more high-severity matches, else high with 1, else high with 3
\* or more medium-severity matches, else medium with 1, else low.
C1_ThresholdTable ==
  /\ ret.risk_level = ThresholdTable(matches)
  /\ (ret.risk_level = "none") = (matches = <<>>)

\* three medium-severity matches and no high-severity one, classified high
C1_Witness ==
  /\ Len(matches) = 3
  /\ NumberOf(matches, MediumSeverity) = 3
  /\ ret.risk_level = "high"

\* the step appends one high-severity match to the list
AppendsHigh ==
  /\ Len(matches') = Len(matches) + 1
  /\ SubSeq(matches', 1, Len(matches)) = matches
  /\ matches'[Len(matches')].pii_type \in HighSeverity

\* C2: risk monotonicity: appending a high-severity match to any list never
\* lowers the risk level in the order none < low < medium < high < critical.
C2_Monotone ==
  [][AppendsHigh => RiskRank(ret'.risk_level) >= RiskRank(ret.risk_level)]_vars

\* a third high-severity match was appended to a list already critical
C2_Witness ==
  /\ op = "add"
  /\ Len(matches) = 3
  /\ NumberOf(matches, HighSeverity) = 3
  /\ ret.risk_level = "critical"

\* the two lists have the same number of matches in every category
SameCategoryCounts(ms, ns) ==
  \A c \in Categories : NumberOf(ms, {c}) = NumberOf(ns, {c})

\* C3: the risk level depends only on the number of matches per category:
\* a reordering of the list, or a change of the offsets, value and
\* confidence of a match, leaves the risk level as it was.
C3_CategoryMultiset ==
  [][SameCategoryCounts(matches, matches') => ret'.risk_level = ret.risk_level]_vars

\* a low match and a high-severity match have just changed places, the
\* high-severity one now second
C3_Witness ==
  /\ op = "swap"
  /\ Len(matches) >= 2
  /\ matches[1].pii_type \notin HighSeverity \cup MediumSeverity
  /\ matches[2].pii_type \in HighSeverity
  /\ ret.risk_level = "high"
====
